---- MODULE Spec2Model ----
(***************************************************************************)
(* Model of the tab-close tools of the MCP tab transfer server             *)
(* (package mcp: closeTab, closeTabsBulk, matchesPattern) and of the       *)
(* Android driver they use (package driver: Start, Stop, LoadTabs,         *)
(* CloseTab, tabExists, CloseTabs).                                        *)
(*                                                                         *)
(* Strings of the program are modelled as sequences of one-character       *)
(* strings, so that strings.ToLower and strings.Contains are computed.     *)
(* The remote device is the sequence of tabs that /json/list returns.      *)
(***************************************************************************)
EXTENDS Integers, Sequences, FiniteSets, TLC

\* ------------------------------------------------------------------ bounds

\* largest number of tabs open on the device in an initial state
MaxTabs == 2

\* largest length of the tabIds argument of close_tabs_bulk
MaxIds == 2

\* ----------------------------------------------------------------- strings

Empty == << >>

Star == << "*" >>

ToLowerCh(c) ==
    CASE c = "G" -> "g"
      [] c = "O" -> "o"
      [] c = "X" -> "x"
      [] OTHER -> c

\* strings.ToLower
ToLower(s) == [i \in 1..Len(s) |-> ToLowerCh(s[i])]

\* strings.Contains: sub occurs in s as a contiguous substring
Contains(s, sub) ==
    \E i \in 0..(Len(s) - Len(sub)) : SubSeq(s, i + 1, i + Len(sub)) = sub

\* a matchesPattern that compares without lowering the case
matchesPatternCaseSensitive(text, pattern) ==
    IF pattern = Star
    THEN TRUE
    ELSE Contains(text, pattern)

\* matchesPattern(text, pattern)
matchesPattern(text, pattern) ==
    IF pattern = Star
    THEN TRUE
    ELSE Contains(ToLower(text), ToLower(pattern))

\* ------------------------------------------------------------ input pools

\* loader.Tab values the device may hold (ID, Title, URL)
TabPool ==
    { [id |-> "a", title |-> << "G", "o" >>, url |-> << "g", "o", "x" >>],
      [id |-> "b", title |-> << "X" >>,      url |-> << "x", "o" >>],
      [id |-> "c", title |-> Empty,          url |-> << "g" >>] }

IdPool == { t.id : t \in TabPool }

\* values of filterUrl and filterTitle
PatternPool == { Empty, Star, << "G", "O" >>, << "x" >> }

\* values of the platform argument ("" defaults to android)
PlatformPool == { "", "android", "ios" }

RECURSIVE SeqsUpTo(_, _)
\* all sequences over S of length at most n
SeqsUpTo(S, n) ==
    IF n = 0
    THEN { << >> }
    ELSE LET shorter == SeqsUpTo(S, n - 1)
         IN  shorter \cup { Append(s, x) : s \in shorter, x \in S }

\* tab lists of a device: at most MaxTabs tabs with pairwise distinct ids
RemotePool ==
    { s \in SeqsUpTo(TabPool, MaxTabs) :
        \A i, j \in 1..Len(s) : i # j => s[i].id # s[j].id }

\* The cache never looks into a tab, so the tab lists of the device are taken
\* from one list of distinct tabs: the device lists a newer tab before the
\* older ones.
DeviceTabs ==
    << [id |-> "b", title |-> << "X" >>,      url |-> << "x", "o" >>],
       [id |-> "a", title |-> << "G", "o" >>, url |-> << "g", "o", "x" >>],
       [id |-> "c", title |-> Empty,          url |-> << "g" >>] >>

DevicePool ==
    { SubSeq(DeviceTabs, Len(DeviceTabs) - n + 1, Len(DeviceTabs)) :
        n \in 0..MaxTabs } \cap RemotePool

TabIdsPool == SeqsUpTo(IdPool, MaxIds)

\* ids of a tab list, as a set
IdsOf(tabs) == { tabs[i].id : i \in 1..Len(tabs) }

\* --------------------------------------------------------------- responses

\* What a tool handler hands back to the MCP host: err is TRUE when the
\* handler returns (nil, error), FALSE when it returns a ToolResponse.
\* msg is the fixed text of the message, count/total/ids/entries are the
\* values formatted into it; reasons are the per-tab error texts in it (no
\* message of either handler formats the FailedErrors map).
Resp(err, msg, count, total, ids, entries) ==
    [err |-> err, msg |-> msg, count |-> count, total |-> total,
     ids |-> ids, entries |-> entries, reasons |-> << >>]

NoResponse == Resp(FALSE, "none", 0, 0, << >>, << >>)

\* the handler goes on to the driver instead of returning
Proceed == Resp(FALSE, "proceed", 0, 0, << >>, << >>)

ErrTabIdRequired == Resp(TRUE, "tabId is required", 0, 0, << >>, << >>)

ErrUnsupported == Resp(TRUE, "only supported for Android platform", 0, 0, << >>, << >>)

ErrStart == Resp(TRUE, "failed to start Android driver", 0, 0, << >>, << >>)

ErrLoad == Resp(TRUE, "failed to load current tabs", 0, 0, << >>, << >>)

NoMatch == Resp(FALSE, "No tabs match the specified criteria.", 0, 0, << >>, << >>)

ErrStartIOS == Resp(TRUE, "failed to start iOS driver", 0, 0, << >>, << >>)

ErrCopyLoad == Resp(TRUE, "failed to load tabs", 0, 0, << >>, << >>)

ErrFormat == Resp(TRUE, "failed to format tabs", 0, 0, << >>, << >>)

CopyOk(n) == Resp(FALSE, "Successfully copied", n, n, << >>, << >>)

ErrParse == Resp(TRUE, "failed to parse tabs JSON", 0, 0, << >>, << >>)

ErrReopenPlatform == Resp(TRUE, "unsupported platform", 0, 0, << >>, << >>)

\* restoring failed at the tab with index i (from 0)
ErrRestore(i) == Resp(TRUE, "failed to restore tabs", i, i, << >>, << >>)

RestoredOk(n) == Resp(FALSE, "Successfully restored", n, n, << >>, << >>)

ConfirmTab(tabId) == Resp(FALSE, "WARNING: confirm=true required", 1, 1, << tabId >>, << >>)

ConfirmBulk(n) == Resp(FALSE, "WARNING: confirm=true required", n, n, << >>, << >>)

DryRunPreview(n, entries) == Resp(FALSE, "DRY RUN", n, n, << >>, entries)

\* ----------------------------------------------- errors of driver.CloseTab

Nil == "nil"

ErrNotStarted == "driver not started"

ErrVerify == "failed to verify tab existence"

ErrNotExist == "tab does not exist"

ErrTransport == "failed to close tab (transport)"

ErrStatus == "unexpected status code when closing tab"

\* the error texts that contain the tab id: the not-found text formats it,
\* and the transport error of net/http quotes the request URL .../close/<id>
NamesTabId(e) == e \in { ErrNotExist, ErrTransport }

\* --------------------------------------------------- mcp.closeTab (pure part)

\* the local variable platform of both handlers: "" means android
DefaultPlatform(p) == IF p = "" THEN "android" ELSE p

\* a closeTab that asks for the confirmation before it validates tabId
closeTabGateConfirmFirst(a) ==
    IF ~a.confirm
    THEN ConfirmTab(a.tabId)
    ELSE IF a.tabId = ""
    THEN ErrTabIdRequired
    ELSE IF DefaultPlatform(a.platform) # "android"
    THEN ErrUnsupported
    ELSE Proceed

\* closeTab up to the driver set-up: validation, confirmation, platform
closeTabGate(a) ==
    IF a.tabId = ""
    THEN ErrTabIdRequired
    ELSE IF ~a.confirm
    THEN ConfirmTab(a.tabId)
    ELSE IF DefaultPlatform(a.platform) # "android"
    THEN ErrUnsupported
    ELSE Proceed

\* closeTab after driver.CloseTab returned e
closeTabResponse(a, e) ==
    IF e # Nil
    THEN Resp(TRUE, e, 0, 0, IF NamesTabId(e) THEN << a.tabId >> ELSE << >>, << >>)
    ELSE Resp(FALSE, "Successfully closed tab", 1, 1, << a.tabId >>, << >>)

\* ---------------------------------------------- mcp.closeTabsBulk (pure part)

\* closeTabsBulk without the platform test
closeTabsBulkGateAnyPlatform(a) == Proceed

\* closeTabsBulk up to the driver set-up: the platform test
closeTabsBulkGate(a) ==
    IF DefaultPlatform(a.platform) # "android"
    THEN ErrUnsupported
    ELSE Proceed

\* the filter test of one tab in closeTabsBulk
ShouldClose(tab, a) ==
    /\ (a.filterUrl # Empty => matchesPattern(tab.url, a.filterUrl))
    /\ (a.filterTitle # Empty => matchesPattern(tab.title, a.filterTitle))

RECURSIVE FilterIds(_, _)
\* the ids of the tabs that pass the filters, in the order of the tab list
FilterIds(tabs, a) ==
    IF tabs = << >>
    THEN << >>
    ELSE (IF ShouldClose(Head(tabs), a) THEN << Head(tabs).id >> ELSE << >>)
         \o FilterIds(Tail(tabs), a)

\* a selection that keeps only the given ids whose tab passes the filters
ResolveTabsToCloseFiltered(a, tabs) ==
    IF Len(a.tabIds) > 0
    THEN LET pass == FilterIds(tabs, a)
             Keep(id) == \E i \in 1..Len(pass) : pass[i] = id
         IN  SelectSeq(a.tabIds, Keep)
    ELSE FilterIds(tabs, a)

\* tabsToClose of closeTabsBulk
ResolveTabsToClose(a, tabs) ==
    IF Len(a.tabIds) > 0
    THEN a.tabIds
    ELSE FilterIds(tabs, a)

RECURSIVE PreviewEntries(_, _)
\* the entries the dry run writes: for each id the first tab with that id
PreviewEntries(ids, tabs) ==
    IF ids = << >>
    THEN << >>
    ELSE LET hit == { i \in 1..Len(tabs) : tabs[i].id = Head(ids) }
         IN  (IF hit = {}
              THEN << >>
              ELSE << tabs[CHOOSE i \in hit : \A j \in hit : i <= j] >>)
             \o PreviewEntries(Tail(ids), tabs)

\* the gates of closeTabsBulk with the confirmation test before the dry run
BulkGateConfirmFirst(a, sel, tabs) ==
    IF Len(sel) = 0
    THEN NoMatch
    ELSE IF ~a.confirm
    THEN ConfirmBulk(Len(sel))
    ELSE IF a.dryRun
    THEN DryRunPreview(Len(sel), PreviewEntries(sel, tabs))
    ELSE Proceed

\* the gates of closeTabsBulk without the confirmation test
BulkGateNoConfirm(a, sel, tabs) ==
    IF Len(sel) = 0
    THEN NoMatch
    ELSE IF a.dryRun
    THEN DryRunPreview(Len(sel), PreviewEntries(sel, tabs))
    ELSE Proceed

\* the gates of closeTabsBulk between the selection and the close loop
BulkGate(a, sel, tabs) ==
    IF Len(sel) = 0
    THEN NoMatch
    ELSE IF a.dryRun
    THEN DryRunPreview(Len(sel), PreviewEntries(sel, tabs))
    ELSE IF ~a.confirm
    THEN ConfirmBulk(Len(sel))
    ELSE Proceed

\* closeTabsBulk after driver.CloseTabs returned r (isErr: a non-nil error)
closeTabsBulkResponse(r, sel) ==
    IF r.isErr
    THEN Resp(TRUE, r.msg, r.count, r.total, r.ids, << >>)
    ELSE Resp(FALSE, "Successfully closed tabs", Len(sel), Len(sel), << >>, << >>)

\* ------------------------------------------------------- driver.CloseTabs

EmptyMap == [x \in {} |-> ""]

MapPut(m, k, v) == [x \in (DOMAIN m) \cup { k } |-> IF x = k THEN v ELSE m[x]]

\* TabCloseResult
NewResult ==
    [SuccessCount |-> 0, FailedCount |-> 0,
     FailedTabIDs |-> << >>, FailedErrors |-> EmptyMap]

\* the loop body of CloseTabs that records no error text
AccumulateNoErrors(r, tabID, e) ==
    IF e # Nil
    THEN [r EXCEPT !.FailedCount = @ + 1,
                   !.FailedTabIDs = Append(@, tabID)]
    ELSE [r EXCEPT !.SuccessCount = @ + 1]

\* the loop body of CloseTabs after CloseTab(tabID) returned e
Accumulate(r, tabID, e) ==
    IF e # Nil
    THEN [r EXCEPT !.FailedCount = @ + 1,
                   !.FailedTabIDs = Append(@, tabID),
                   !.FailedErrors = MapPut(@, tabID, e)]
    ELSE [r EXCEPT !.SuccessCount = @ + 1]

\* a loop that returns at the first failing tab
NextIndexAbort(i, e, n) == IF e # Nil THEN n + 1 ELSE i + 1

\* the range loop of CloseTabs: the next index, whatever CloseTab returned
NextIndex(i, e, n) == i + 1

\* what CloseTabs returns after the loop
CloseTabsReturn(r, tabIDs) ==
    IF r.FailedCount > 0
    THEN [isErr |-> TRUE, msg |-> "partially successful",
          count |-> r.SuccessCount, total |-> Len(tabIDs),
          ids |-> r.FailedTabIDs]
    ELSE [isErr |-> FALSE, msg |-> Nil, count |-> 0, total |-> 0, ids |-> << >>]

\* -------------------------------------------------------- driver.tabExists

\* a check that finds every tab
tabExistsAlways(tabs, tabID) == TRUE

\* the search loop of tabExists over the loaded tabs
tabExists(tabs, tabID) == \E i \in 1..Len(tabs) : tabs[i].id = tabID

RECURSIVE RemoveTab(_, _)
\* the tab list of the device after /json/close/<tabID>
RemoveTab(tabs, tabID) ==
    IF tabs = << >>
    THEN << >>
    ELSE (IF Head(tabs).id = tabID THEN << >> ELSE << Head(tabs) >>)
         \o RemoveTab(Tail(tabs), tabID)

\* ------------------------------------------------------------------- state

VARIABLES
    remote,       \* the tabs open on the device, as /json/list returns them
    remote0,      \* remote when the running tool call began
    forward,      \* the adb port forward tcp:9222 is set up
    pc,           \* position of the running tool call
    op,           \* "none", "closeTab" or "closeTabsBulk"
    args,         \* the arguments of the running tool call
    started,      \* the call's AndroidDriver has a tabLoader (Start succeeded)
    currentTabs,  \* currentTabs of closeTabsBulk
    tabsToClose,  \* tabsToClose of closeTabsBulk
    idx,          \* position of the range loop of CloseTabs
    exists,       \* last fetch of tabExists: it succeeded (ok), it held the id (found)
    result,       \* the TabCloseResult of CloseTabs
    response,     \* what the handler returns
    calls         \* driver and device calls made by the running tool call

\* the tab cache of the TabTransferServer and the goroutines that use it
VARIABLES
    server,       \* the server: "new" before NewTabTransferServer, "init",
                  \* then Start: "spawned", "serving", "exited" or "crashed"
    tabCache,     \* s.tabCache
    lastUpdated,  \* s.lastUpdated (0 is the zero time)
    cacheSize,    \* s.cacheSize
    clock,        \* the last value time.Now() returned
    rw,           \* s.cacheMutex: the writer and the readers holding it,
                  \* and the writers blocked in Lock
    ppc,          \* position of each goroutine
    pfetched,     \* tabs of fetchAndCacheAndroidTabs, per goroutine
    pret,         \* what fetchAndCacheAndroidTabs returned, per goroutine
    pseen,        \* (entries, lastUpdated) a goroutine last read
    pcalls,       \* driver calls of the goroutine's running operation
    lastSwap,     \* the (entries, lastUpdated) of the last finished swap
    runs,         \* refresh_tab_cache calls so far
    env           \* TAB_CACHE_SIZE in the environment of the process

cacheVars ==
    << server, tabCache, lastUpdated, cacheSize, clock, rw, ppc, pfetched,
       pret, pseen, pcalls, lastSwap, runs, env >>

toolVars ==
    << remote0, pc, op, args, started, currentTabs, tabsToClose, idx, exists,
       result, response, calls >>

vars ==
    << remote, remote0, forward, pc, op, args, started, currentTabs,
       tabsToClose, idx, exists, result, response, calls, cacheVars >>

NoArgs ==
    [tabId |-> "", tabIds |-> << >>, platform |-> "", filterUrl |-> Empty,
     filterTitle |-> Empty, confirm |-> FALSE, dryRun |-> FALSE,
     skipCleanup |-> FALSE, tabs |-> << >>, parses |-> TRUE]

\* CloseTabArgs
CloseTabArgs ==
    { [NoArgs EXCEPT !.tabId = t, !.platform = p, !.confirm = c] :
        t \in IdPool \cup { "" }, p \in PlatformPool, c \in BOOLEAN }

\* (filterUrl, filterTitle) given together with these tabIds: every pair of
\* patterns when there are no tabIds, three pairs besides explicit tabIds
FilterPairs(ids) ==
    IF ids = << >>
    THEN PatternPool \X PatternPool
    ELSE { << Empty, Empty >>, << << "x" >>, Empty >>, << Empty, Star >> }

\* CloseTabsBulkArgs
CloseTabsBulkArgs ==
    { [NoArgs EXCEPT !.tabIds = x[1], !.platform = x[2], !.filterUrl = x[3][1],
                     !.filterTitle = x[3][2], !.confirm = x[4], !.dryRun = x[5]] :
        x \in { y \in TabIdsPool \X PlatformPool \X (PatternPool \X PatternPool)
                        \X BOOLEAN \X BOOLEAN : y[3] \in FilterPairs(y[1]) } }

NoExists == [ok |-> FALSE, found |-> FALSE]

\* cacheSize of NewTabTransferServer without TAB_CACHE_SIZE
DefaultCacheSize == 30

\* the goroutines that use the cache: the startup population task, a
\* refresh_tab_cache call, and a reading call (cache_status, search_tabs,
\* tabs://current)
Procs == { "populate", "refresh", "reader" }

Fetchers == { "populate", "refresh" }

NoLock == [writer |-> "none", readers |-> {}, pending |-> {}]

NoSeen == [tabs |-> << >>, stamp |-> 0, read |-> FALSE]

\* ------------------------------------------------------ TAB_CACHE_SIZE

\* width of the int of the model, in bits (the int of the program has 64)
IntBits == 6

\* largest length of the value of TAB_CACHE_SIZE
MaxEnvLen == 3

\* an int after an overflow: the two's complement value of IntBits bits
Wrap(x) ==
    LET r == x % (2 ^ IntBits)
    IN  IF r >= 2 ^ (IntBits - 1) THEN r - 2 ^ IntBits ELSE r

\* the characters '0' to '9'
Digits == << "0", "1", "2", "3", "4", "5", "6", "7", "8", "9" >>

\* r >= '0' && r <= '9'
IsDigit(c) == \E i \in 1..Len(Digits) : Digits[i] = c

\* int(r - '0')
DigitValue(c) == (CHOOSE i \in 1..Len(Digits) : Digits[i] = c) - 1

RECURSIVE parseIntLoop(_, _, _)
\* parseInt, the loop over the characters of s from the i-th on
parseIntLoop(s, i, res) ==
    IF i > Len(s)
    THEN res
    ELSE IF IsDigit(s[i])
         THEN parseIntLoop(s, i + 1, Wrap(res * 10 + DigitValue(s[i])))
         ELSE 0

\* parseInt(s)
parseInt(s) == IF s = Empty THEN 0 ELSE parseIntLoop(s, 1, 0)

\* the variable is not in the environment
NoEnv == [set |-> FALSE, value |-> Empty]

\* os.Getenv("TAB_CACHE_SIZE"): the empty string when the variable is absent
Getenv(e) == IF e.set THEN e.value ELSE Empty

\* NewTabTransferServer: cacheSize, the default unless parseInt of a
\* non-empty TAB_CACHE_SIZE is above zero
newCacheSize(e) ==
    IF Getenv(e) # Empty /\ parseInt(Getenv(e)) > 0
    THEN parseInt(Getenv(e))
    ELSE DefaultCacheSize

\* NewTabTransferServer: an empty cache of the capacity that the
\* environment e gives
CacheInit(e) ==
    /\ server = "init"
    /\ tabCache = << >>
    /\ lastUpdated = 0
    /\ cacheSize = newCacheSize(e)
    /\ clock = 0
    /\ rw = NoLock
    /\ ppc = [p \in Procs |-> "idle"]
    /\ pfetched = [p \in Procs |-> << >>]
    /\ pret = [p \in Procs |-> "none"]
    /\ pseen = [p \in Procs |-> NoSeen]
    /\ pcalls = [p \in Procs |-> << >>]
    /\ lastSwap = << << >>, 0 >>
    /\ runs = 0
    /\ env = e

Init ==
    /\ remote \in RemotePool
    /\ remote0 = remote
    /\ forward = FALSE
    /\ pc = "idle"
    /\ op = "none"
    /\ args = NoArgs
    /\ started = FALSE
    /\ currentTabs = << >>
    /\ tabsToClose = << >>
    /\ idx = 0
    /\ exists = NoExists
    /\ result = NewResult
    /\ response = NoResponse
    /\ calls = << >>
    /\ CacheInit(NoEnv)

\* the tab id the running CloseTab works on
CurId == IF op = "closeTab" THEN args.tabId ELSE tabsToClose[idx]

\* a tool call arrives: the handler runs up to its driver set-up
Begin(name, a, gate) ==
    /\ pc = "idle"
    /\ op' = name
    /\ args' = [a EXCEPT !.platform = DefaultPlatform(a.platform)]
    /\ remote0' = remote
    /\ response' = IF gate = Proceed THEN NoResponse ELSE gate
    /\ pc' = IF gate = Proceed THEN "start" ELSE "done"
    /\ UNCHANGED cacheVars
    /\ UNCHANGED << remote, forward, started, currentTabs, tabsToClose, idx,
                    exists, result, calls >>

\* close_tab
closeTab ==
    \E a \in CloseTabArgs : Begin("closeTab", a, closeTabGate(a))

\* close_tabs_bulk
closeTabsBulk ==
    \E a \in CloseTabsBulkArgs : Begin("closeTabsBulk", a, closeTabsBulkGate(a))

\* AndroidDriver.Start: environment check, device check, adb forward
Start ==
    /\ pc = "start"
    /\ calls' = Append(calls, << "Start", "" >>)
    /\ \E ok \in BOOLEAN :
        IF ok
        THEN /\ started' = TRUE
             /\ forward' = IF args.platform = "ios" THEN forward ELSE TRUE
             /\ pc' = CASE op = "closeTab"        -> "exists"
                        [] op = "closeTabsBulk"   -> "load"
                        [] op = "copyTabsAndroid" -> "copyload"
                        [] op = "copyTabsIOS"     -> "copyload"
                        [] op = "reopenTabs"      -> "restore"
             /\ response' = response
        ELSE /\ started' = FALSE
             /\ forward' = forward
             /\ pc' = "done"
             /\ response' = IF args.platform = "ios" THEN ErrStartIOS ELSE ErrStart
    /\ UNCHANGED cacheVars
    /\ UNCHANGED << remote, remote0, op, args, currentTabs, tabsToClose, idx,
                    exists, result >>

\* outcomes of AndroidDriver.LoadTabs
LoadOutcomes == IF started THEN { "ok", "fail" } ELSE { ErrNotStarted }

\* closeTabsBulk: load the current tabs, select, and pass the gates
LoadCurrentTabs ==
    /\ pc = "load"
    /\ calls' = Append(calls, << "LoadTabs", "" >>)
    /\ \E out \in LoadOutcomes :
        IF out = "ok"
        THEN LET sel == ResolveTabsToClose(args, remote)
                 gate == BulkGate(args, sel, remote)
             IN  /\ currentTabs' = remote
                 /\ tabsToClose' = sel
                 /\ idx' = IF gate = Proceed THEN 1 ELSE 0
                 /\ pc' = IF gate = Proceed THEN "exists" ELSE "stop"
                 /\ response' = IF gate = Proceed THEN response ELSE gate
        ELSE /\ pc' = "stop"
             /\ response' = ErrLoad
             /\ UNCHANGED << currentTabs, tabsToClose, idx >>
    /\ UNCHANGED cacheVars
    /\ UNCHANGED << remote, remote0, forward, op, args, started, exists, result >>

\* driver.CloseTab(CurId) returned e: closeTab answers, CloseTabs goes on
CloseTabReturns(e) ==
    IF op = "closeTab"
    THEN /\ response' = closeTabResponse(args, e)
         /\ pc' = "stop"
         /\ UNCHANGED << result, idx >>
    ELSE LET r == Accumulate(result, CurId, e)
             n == NextIndex(idx, e, Len(tabsToClose))
         IN  /\ result' = r
             /\ idx' = n
             /\ IF n > Len(tabsToClose)
                THEN /\ pc' = "stop"
                     /\ response' = closeTabsBulkResponse(
                                        CloseTabsReturn(r, tabsToClose), tabsToClose)
                ELSE /\ pc' = "exists"
                     /\ response' = response

\* driver.CloseTab, first half: the started test and tabExists
CloseTabVerify ==
    /\ pc = "exists"
    /\ calls' = calls \o << << "CloseTab", CurId >>, << "LoadTabs", "" >> >>
    /\ \E out \in LoadOutcomes :
        IF out = "ok"
        THEN LET found == tabExists(remote, CurId)
             IN  /\ exists' = [ok |-> TRUE, found |-> CurId \in IdsOf(remote)]
                 /\ IF found
                    THEN /\ pc' = "post"
                         /\ UNCHANGED << response, result, idx >>
                    ELSE CloseTabReturns(ErrNotExist)
        ELSE /\ exists' = NoExists
             /\ CloseTabReturns(IF out = "fail" THEN ErrVerify ELSE ErrNotStarted)
    /\ UNCHANGED cacheVars
    /\ UNCHANGED << remote, remote0, forward, op, args, started, currentTabs,
                    tabsToClose >>

\* outcomes of POST /json/close/<id>: the device closes only a tab it has
PostOutcomes(id) ==
    IF id \in IdsOf(remote)
    THEN { Nil, ErrTransport, ErrStatus }
    ELSE { ErrTransport, ErrStatus }

\* a CloseTab that also drops the closed tab from the cache of the server
CloseTabPostEvicting ==
    /\ pc = "post"
    /\ calls' = Append(calls, << "POST", CurId >>)
    /\ \E e \in PostOutcomes(CurId) :
        /\ remote' = IF e = Nil THEN RemoveTab(remote, CurId) ELSE remote
        /\ tabCache' = IF e = Nil THEN RemoveTab(tabCache, CurId) ELSE tabCache
        /\ CloseTabReturns(e)
    /\ UNCHANGED << server, lastUpdated, cacheSize, clock, rw, ppc, pfetched,
                    pret, pseen, pcalls, lastSwap, runs, env >>
    /\ UNCHANGED << remote0, forward, op, args, started, currentTabs,
                    tabsToClose, exists >>

\* driver.CloseTab, second half: the close request
CloseTabPost ==
    /\ pc = "post"
    /\ calls' = Append(calls, << "POST", CurId >>)
    /\ \E e \in PostOutcomes(CurId) :
        /\ remote' = IF e = Nil THEN RemoveTab(remote, CurId) ELSE remote
        /\ CloseTabReturns(e)
    /\ UNCHANGED cacheVars
    /\ UNCHANGED << remote0, forward, op, args, started, currentTabs,
                    tabsToClose, exists >>

\* the deferred AndroidDriver.Stop: adb forward --remove, its error dropped
Stop ==
    /\ pc = "stop"
    /\ calls' = Append(calls, << "Stop", "" >>)
    /\ \E removed \in BOOLEAN :
        forward' = IF args.platform = "ios" \/ args.skipCleanup
                   THEN forward
                   ELSE forward /\ ~removed
    /\ pc' = "done"
    /\ UNCHANGED cacheVars
    /\ UNCHANGED << remote, remote0, op, args, started, currentTabs,
                    tabsToClose, idx, exists, result, response >>

\* the handler has returned; the next tool call gets a new driver
Return ==
    /\ pc = "done"
    /\ pc' = "idle"
    /\ op' = "none"
    /\ args' = NoArgs
    /\ remote0' = remote
    /\ started' = FALSE
    /\ currentTabs' = << >>
    /\ tabsToClose' = << >>
    /\ idx' = 0
    /\ exists' = NoExists
    /\ result' = NewResult
    /\ response' = NoResponse
    /\ calls' = << >>
    /\ UNCHANGED cacheVars
    /\ UNCHANGED << remote, forward >>

\* AndroidTabsArgs: the arguments of copy_tabs_android the model varies
AndroidTabsArgs ==
    { [NoArgs EXCEPT !.platform = "android", !.skipCleanup = k] : k \in BOOLEAN }

\* copy_tabs_android
copyTabsAndroid ==
    \E a \in AndroidTabsArgs : Begin("copyTabsAndroid", a, Proceed)

\* copyTabsAndroid: LoadTabs and FormatTabs
CopyLoadTabs ==
    /\ pc = "copyload"
    /\ calls' = Append(calls, << "LoadTabs", "" >>)
    /\ \E out \in LoadOutcomes, formatted \in BOOLEAN :
        /\ currentTabs' = IF out = "ok" THEN remote ELSE << >>
        /\ response' = CASE out # "ok"  -> ErrCopyLoad
                          [] ~formatted -> ErrFormat
                          [] OTHER      -> CopyOk(Len(remote))
    /\ pc' = "stop"
    /\ UNCHANGED cacheVars
    /\ UNCHANGED << remote, remote0, forward, op, args, started, tabsToClose,
                    idx, exists, result >>

\* ReopenTabsArgs: the platform as given (reopenTabs has no default), whether
\* TabsJSON parses, and the tabs it parses to
ReopenTabsArgs ==
    { [NoArgs EXCEPT !.platform = p, !.parses = j, !.tabs = t] :
        p \in PlatformPool, j \in BOOLEAN, t \in DevicePool }

\* reopenTabs up to its driver set-up
reopenTabsGate(a) ==
    CASE ~a.parses                         -> ErrParse
      [] a.platform \notin { "android", "ios" } -> ErrReopenPlatform
      [] OTHER                             -> Proceed

\* reopen_tabs
reopenTabs ==
    \E a \in ReopenTabsArgs :
        /\ pc = "idle"
        /\ op' = "reopenTabs"
        /\ args' = a
        /\ remote0' = remote
        /\ response' = IF reopenTabsGate(a) = Proceed
                        THEN NoResponse
                        ELSE reopenTabsGate(a)
        /\ pc' = IF reopenTabsGate(a) = Proceed THEN "start" ELSE "done"
        /\ UNCHANGED cacheVars
        /\ UNCHANGED << remote, forward, started, currentTabs, tabsToClose,
                        idx, exists, result, calls >>

\* the tabs of the device after the first k of the tabs have been created,
\* the newest first
Created(tabs, k, device) ==
    [i \in 1..(k + Len(device)) |->
        IF i <= k THEN tabs[k + 1 - i] ELSE device[i - k]]

\* HTTPTabRestorer.RestoreTabs can create the first k tabs: the device gives a
\* new tab an id that is not in use, and holds at most MaxTabs tabs
CanCreate(tabs, k, device) ==
    /\ k + Len(device) <= MaxTabs
    /\ \A i \in 1..k : tabs[i].id \notin IdsOf(device)

\* a loop that goes on to the tabs after the failing one
restoreAttemptsAll(n, k) == n

\* HTTPTabRestorer.RestoreTabs: the number of restoreTab calls of the range
\* loop over n tabs of which the first k succeed; it returns at the first
\* error
restoreAttempts(n, k) == IF k < n THEN k + 1 ELSE k

\* reopenTabs: RestoreTabs creates the tabs in list order and stops at the
\* first tab that fails; for iOS it hands the tabs to a WebSocket client
RestoreTabs ==
    /\ pc = "restore"
    /\ \E k \in 0..Len(args.tabs) :
        /\ args.platform = "ios" => k = 0
        /\ CanCreate(args.tabs, k, remote)
        /\ remote' = Created(args.tabs, k, remote)
        /\ calls' = calls \o
               [i \in 1..restoreAttempts(Len(args.tabs), k) |->
                   << "PUT", args.tabs[i].id >>]
        /\ \/ /\ k = Len(args.tabs) \/ args.platform = "ios"
              /\ response' = RestoredOk(Len(args.tabs))
           \/ /\ k < Len(args.tabs) \/ args.platform = "ios"
              /\ response' = ErrRestore(k)
    /\ pc' = "stop"
    /\ UNCHANGED cacheVars
    /\ UNCHANGED << remote0, forward, op, args, started, currentTabs,
                    tabsToClose, idx, exists, result >>

Next ==
    \/ closeTab
    \/ closeTabsBulk
    \/ Start
    \/ LoadCurrentTabs
    \/ CloseTabVerify
    \/ CloseTabPost
    \/ Stop
    \/ Return

Spec == Init /\ [][Next]_vars

\* ------------------------------------------------------------ the tab cache

\* largest TAB_CACHE_SIZE the server is constructed with
MaxCacheSize == 1

\* largest number of refresh_tab_cache calls
MaxRefresh == 1

\* fetchAndCacheAndroidTabs without the limit to cacheSize
TruncateNone(tabs, n) == tabs

\* fetchAndCacheAndroidTabs: the tabs kept of a fetch, tabs[:cacheSize]
Truncate(tabs, n) == IF Len(tabs) > n THEN SubSeq(tabs, 1, n) ELSE tabs

\* fetchAndCacheAndroidTabs returning a LoadTabs error without Stop
fetchStepNoStopOnError(step, ok) ==
    CASE step = "begin"  -> "start"
      [] step = "start"  -> IF ok THEN "load" ELSE "ret"
      [] step = "load"   -> IF ok THEN "lock" ELSE "ret"
      [] step = "lock"   -> "swap"
      [] step = "swap"   -> "stamp"
      [] step = "stamp"  -> "unlock"
      [] step = "unlock" -> "stop"
      [] step = "stop"   -> "ret"

\* fetchAndCacheAndroidTabs holding the lock from the beginning to the end
fetchStepLockFirst(step, ok) ==
    CASE step = "begin"  -> "lock"
      [] step = "lock"   -> "start"
      [] step = "start"  -> IF ok THEN "load" ELSE "unlock"
      [] step = "load"   -> IF ok THEN "swap" ELSE "unlock"
      [] step = "swap"   -> "stamp"
      [] step = "stamp"  -> "unlock"
      [] step = "unlock" -> "stop"
      [] step = "stop"   -> "ret"

\* fetchAndCacheAndroidTabs storing the tabs whatever LoadTabs returned
fetchStepIgnoreLoadError(step, ok) ==
    CASE step = "begin"  -> "start"
      [] step = "start"  -> IF ok THEN "load" ELSE "ret"
      [] step = "load"   -> "lock"
      [] step = "lock"   -> "swap"
      [] step = "swap"   -> "stamp"
      [] step = "stamp"  -> "unlock"
      [] step = "unlock" -> "stop"
      [] step = "stop"   -> "ret"

\* fetchAndCacheAndroidTabs: the step that follows a step; ok tells whether
\* the step succeeded. The deferred calls run in reverse order of their
\* registration: Unlock, then Stop.
fetchStep(step, ok) ==
    CASE step = "begin"  -> "start"
      [] step = "start"  -> IF ok THEN "load" ELSE "ret"
      [] step = "load"   -> IF ok THEN "lock" ELSE "stop"
      [] step = "lock"   -> "swap"
      [] step = "swap"   -> "stamp"
      [] step = "stamp"  -> "unlock"
      [] step = "unlock" -> "stop"
      [] step = "stop"   -> "ret"

\* populateTabCache without its deferred recover
populateTabCacheNoRecover(ret, srv) ==
    IF ret = "panic" THEN "crashed" ELSE srv

\* populateTabCache: the state of the server once the goroutine has ended
\* with ret; the deferred recover catches a panic
populateTabCache(ret, srv) == srv

\* sync.RWMutex.RLock taken without regard to a writer
CanRLockAlways(m) == TRUE

\* sync.RWMutex: RLock is granted when no writer holds the mutex and no
\* writer is blocked in Lock
CanRLock(m) == m.writer = "none" /\ m.pending = {}

\* sync.RWMutex: Lock is granted when nobody holds the mutex
CanLock(m) == m.writer = "none" /\ m.readers = {}

\* the outcomes of a call into the driver: a panic is considered for the
\* startup goroutine, whose recover is the subject
CallOutcomes(p) ==
    IF p = "populate" THEN { "ok", "fail", "panic" } ELSE { "ok", "fail" }

Running == server \in { "spawned", "serving" }

CacheSpecInit ==
    /\ remote \in DevicePool
    /\ remote0 = remote
    /\ forward = FALSE
    /\ pc = "idle"
    /\ op = "none"
    /\ args = NoArgs
    /\ started = FALSE
    /\ currentTabs = << >>
    /\ tabsToClose = << >>
    /\ idx = 0
    /\ exists = NoExists
    /\ result = NewResult
    /\ response = NoResponse
    /\ calls = << >>
    /\ \E size \in 1..MaxCacheSize :
           CacheInit([set |-> TRUE, value |-> << Digits[size + 1] >>])

\* Start: the tools are registered and populateTabCache is spawned
StartServer ==
    /\ server = "init"
    /\ server' = "spawned"
    /\ ppc' = [ppc EXCEPT !["populate"] = fetchStep("begin", TRUE)]
    /\ UNCHANGED << tabCache, lastUpdated, cacheSize, clock, rw, pfetched,
                    pret, pseen, pcalls, lastSwap, runs >>
    /\ UNCHANGED << remote, forward, toolVars, env >>

\* Start: s.server.Serve()
Serve ==
    /\ server = "spawned"
    /\ \E ok \in BOOLEAN : server' = IF ok THEN "serving" ELSE "exited"
    /\ UNCHANGED << tabCache, lastUpdated, cacheSize, clock, rw, ppc, pfetched,
                    pret, pseen, pcalls, lastSwap, runs >>
    /\ UNCHANGED << remote, forward, toolVars, env >>

\* a refresh_tab_cache call arrives
refreshTabCache ==
    /\ server = "serving"
    /\ runs < MaxRefresh
    /\ runs' = runs + 1
    /\ ppc["refresh"] \in { "idle", "done" }
    /\ ppc' = [ppc EXCEPT !["refresh"] = fetchStep("begin", TRUE)]
    /\ pfetched' = [pfetched EXCEPT !["refresh"] = << >>]
    /\ pret' = [pret EXCEPT !["refresh"] = "none"]
    /\ pseen' = [pseen EXCEPT !["refresh"] = NoSeen]
    /\ pcalls' = [pcalls EXCEPT !["refresh"] = << >>]
    /\ UNCHANGED << server, tabCache, lastUpdated, cacheSize, clock, rw,
                    lastSwap >>
    /\ UNCHANGED << remote, forward, toolVars, env >>

\* fetchAndCacheAndroidTabs: androidDriver.Start
FetchStart(p) ==
    /\ Running
    /\ ppc[p] = "start"
    /\ pcalls' = [pcalls EXCEPT ![p] = Append(@, "Start")]
    /\ \E out \in CallOutcomes(p) :
        /\ forward' = IF out = "ok" THEN TRUE ELSE forward
        /\ ppc' = [ppc EXCEPT ![p] = fetchStep("start", out = "ok")]
        /\ pret' = [pret EXCEPT ![p] =
                       CASE out = "ok"    -> @
                         [] out = "fail"  -> "errStart"
                         [] out = "panic" -> "panic"]
    /\ UNCHANGED << server, tabCache, lastUpdated, cacheSize, clock, rw,
                    pfetched, pseen, lastSwap, runs >>
    /\ UNCHANGED << remote, toolVars, env >>

\* fetchAndCacheAndroidTabs: androidDriver.LoadTabs, which goes through the
\* port forward; with the tabs loaded the goroutine calls s.cacheMutex.Lock()
FetchLoad(p) ==
    /\ Running
    /\ ppc[p] = "load"
    /\ pcalls' = [pcalls EXCEPT ![p] = Append(@, "LoadTabs")]
    /\ \E out \in CallOutcomes(p) :
        /\ out = "ok" => forward
        /\ pfetched' = [pfetched EXCEPT ![p] =
                           IF out = "ok" THEN remote ELSE << >>]
        /\ ppc' = [ppc EXCEPT ![p] = fetchStep("load", out = "ok")]
        /\ rw' = IF fetchStep("load", out = "ok") = "lock"
                 THEN [rw EXCEPT !.pending = @ \cup { p }]
                 ELSE rw
        /\ pret' = [pret EXCEPT ![p] =
                       CASE out = "ok"    -> @
                         [] out = "fail"  -> "errLoad"
                         [] out = "panic" -> "panic"]
    /\ UNCHANGED << server, tabCache, lastUpdated, cacheSize, clock,
                    pseen, lastSwap, runs >>
    /\ UNCHANGED << remote, forward, toolVars, env >>

\* fetchAndCacheAndroidTabs: s.cacheMutex.Lock() returns
FetchLock(p) ==
    /\ Running
    /\ ppc[p] = "lock"
    /\ CanLock(rw)
    /\ rw' = [rw EXCEPT !.writer = p, !.pending = @ \ { p }]
    /\ pcalls' = [pcalls EXCEPT ![p] = Append(@, "Lock")]
    /\ ppc' = [ppc EXCEPT ![p] = fetchStep("lock", TRUE)]
    /\ UNCHANGED << server, tabCache, lastUpdated, cacheSize, clock, pfetched,
                    pret, pseen, lastSwap, runs >>
    /\ UNCHANGED << remote, forward, toolVars, env >>

\* fetchAndCacheAndroidTabs: the assignment to s.tabCache
FetchSwap(p) ==
    /\ Running
    /\ ppc[p] = "swap"
    /\ tabCache' = Truncate(pfetched[p], cacheSize)
    /\ pcalls' = [pcalls EXCEPT ![p] = Append(@, "swap")]
    /\ ppc' = [ppc EXCEPT ![p] = fetchStep("swap", TRUE)]
    /\ UNCHANGED << server, lastUpdated, cacheSize, clock, rw, pfetched,
                    pret, pseen, lastSwap, runs >>
    /\ UNCHANGED << remote, forward, toolVars, env >>

\* fetchAndCacheAndroidTabs: s.lastUpdated = time.Now()
FetchStamp(p) ==
    /\ Running
    /\ ppc[p] = "stamp"
    /\ clock' = clock + 1
    /\ lastUpdated' = clock + 1
    /\ lastSwap' = << tabCache, clock + 1 >>
    /\ pcalls' = [pcalls EXCEPT ![p] = Append(@, "stamp")]
    /\ ppc' = [ppc EXCEPT ![p] = fetchStep("stamp", TRUE)]
    /\ UNCHANGED << server, tabCache, cacheSize, rw, pfetched, pret, pseen,
                    runs >>
    /\ UNCHANGED << remote, forward, toolVars, env >>

\* fetchAndCacheAndroidTabs: the deferred s.cacheMutex.Unlock()
FetchUnlock(p) ==
    /\ Running
    /\ ppc[p] = "unlock"
    /\ rw' = [rw EXCEPT !.writer = IF @ = p THEN "none" ELSE @]
    /\ pcalls' = [pcalls EXCEPT ![p] = Append(@, "Unlock")]
    /\ ppc' = [ppc EXCEPT ![p] = fetchStep("unlock", TRUE)]
    /\ UNCHANGED << server, tabCache, lastUpdated, cacheSize, clock, pfetched,
                    pret, pseen, lastSwap, runs >>
    /\ UNCHANGED << remote, forward, toolVars, env >>

\* fetchAndCacheAndroidTabs: the deferred androidDriver.Stop, whose error is
\* dropped
FetchStop(p) ==
    /\ Running
    /\ ppc[p] = "stop"
    /\ \E removed \in BOOLEAN : forward' = (forward /\ ~removed)
    /\ pcalls' = [pcalls EXCEPT ![p] = Append(@, "Stop")]
    /\ pret' = [pret EXCEPT ![p] = IF @ = "none" THEN "nil" ELSE @]
    /\ ppc' = [ppc EXCEPT ![p] = fetchStep("stop", TRUE)]
    /\ UNCHANGED << server, tabCache, lastUpdated, cacheSize, clock, rw,
                    pfetched, pseen, lastSwap, runs >>
    /\ UNCHANGED << remote, toolVars, env >>

\* fetchAndCacheAndroidTabs has returned to populateTabCache or to
\* refreshTabCache
FetchReturn(p) ==
    /\ Running
    /\ ppc[p] = "ret"
    /\ ppc' = [ppc EXCEPT ![p] =
                  CASE pret[p] # "nil"  -> "done"
                    [] p = "populate"   -> "log"
                    [] OTHER            -> "rlock"]
    /\ server' = IF p = "populate" /\ pret[p] # "nil"
                 THEN populateTabCache(pret[p], server)
                 ELSE server
    /\ pfetched' = [pfetched EXCEPT ![p] = << >>]
    /\ UNCHANGED << tabCache, lastUpdated, cacheSize, clock, rw,
                    pret, pseen, pcalls, lastSwap, runs >>
    /\ UNCHANGED << remote, forward, toolVars, env >>

\* populateTabCache: the success message formats len(s.tabCache), read
\* without the mutex
populateLog ==
    /\ Running
    /\ ppc["populate"] = "log"
    /\ pseen' = [pseen EXCEPT !["populate"] =
                     [tabs |-> tabCache, stamp |-> 0, read |-> TRUE]]
    /\ pcalls' = [pcalls EXCEPT !["populate"] = Append(@, "read")]
    /\ ppc' = [ppc EXCEPT !["populate"] = "done"]
    /\ UNCHANGED << server, tabCache, lastUpdated, cacheSize, clock, rw,
                    pfetched, pret, lastSwap, runs >>
    /\ UNCHANGED << remote, forward, toolVars, env >>

\* a cache_status, search_tabs or tabs://current request arrives
cacheStatus ==
    /\ server = "serving"
    /\ ppc["reader"] \in { "idle", "done" }
    /\ ppc' = [ppc EXCEPT !["reader"] = "rlock"]
    /\ pseen' = [pseen EXCEPT !["reader"] = NoSeen]
    /\ pcalls' = [pcalls EXCEPT !["reader"] = << >>]
    /\ UNCHANGED << server, tabCache, lastUpdated, cacheSize, clock, rw,
                    pfetched, pret, lastSwap, runs >>
    /\ UNCHANGED << remote, forward, toolVars, env >>

\* s.cacheMutex.RLock()
RLock(p) ==
    /\ Running
    /\ ppc[p] = "rlock"
    /\ CanRLock(rw)
    /\ rw' = [rw EXCEPT !.readers = @ \cup { p }]
    /\ pcalls' = [pcalls EXCEPT ![p] = Append(@, "RLock")]
    /\ ppc' = [ppc EXCEPT ![p] = "read"]
    /\ UNCHANGED << server, tabCache, lastUpdated, cacheSize, clock, pfetched,
                    pret, pseen, lastSwap, runs >>
    /\ UNCHANGED << remote, forward, toolVars, env >>

\* the reads of s.tabCache and s.lastUpdated between RLock and RUnlock
ReadCache(p) ==
    /\ Running
    /\ ppc[p] = "read"
    /\ pseen' = [pseen EXCEPT ![p] =
                     [tabs |-> tabCache, stamp |-> lastUpdated, read |-> TRUE]]
    /\ pcalls' = [pcalls EXCEPT ![p] = Append(@, "read")]
    /\ ppc' = [ppc EXCEPT ![p] = "runlock"]
    /\ UNCHANGED << server, tabCache, lastUpdated, cacheSize, clock, rw,
                    pfetched, pret, lastSwap, runs >>
    /\ UNCHANGED << remote, forward, toolVars, env >>

\* s.cacheMutex.RUnlock(), after which the handler answers
RUnlock(p) ==
    /\ Running
    /\ ppc[p] = "runlock"
    /\ rw' = [rw EXCEPT !.readers = @ \ { p }]
    /\ pcalls' = [pcalls EXCEPT ![p] = Append(@, "RUnlock")]
    /\ ppc' = [ppc EXCEPT ![p] = "done"]
    /\ UNCHANGED << server, tabCache, lastUpdated, cacheSize, clock, pfetched,
                    pret, pseen, lastSwap, runs >>
    /\ UNCHANGED << remote, forward, toolVars, env >>

\* The user opens or closes tabs on the device. Only LoadTabs reads the tabs
\* of the device, so a change is taken when a LoadTabs is about to read them.
DeviceChange ==
    /\ Running
    /\ \E p \in Fetchers : ppc[p] = "load"
    /\ remote' \in DevicePool \ { remote }
    /\ UNCHANGED << server, tabCache, lastUpdated, cacheSize, clock, rw, ppc,
                    pfetched, pret, pseen, pcalls, lastSwap, runs >>
    /\ UNCHANGED << forward, toolVars, env >>

CacheNext ==
    \/ StartServer
    \/ Serve
    \/ refreshTabCache
    \/ cacheStatus
    \/ populateLog
    \/ DeviceChange
    \/ \E p \in Fetchers : FetchStart(p)
    \/ \E p \in Fetchers : FetchLoad(p)
    \/ \E p \in Fetchers : FetchLock(p)
    \/ \E p \in Fetchers : FetchSwap(p)
    \/ \E p \in Fetchers : FetchStamp(p)
    \/ \E p \in Fetchers : FetchUnlock(p)
    \/ \E p \in Fetchers : FetchStop(p)
    \/ \E p \in Fetchers : FetchReturn(p)
    \/ \E p \in { "refresh", "reader" } : RLock(p)
    \/ \E p \in { "refresh", "reader" } : ReadCache(p)
    \/ \E p \in { "refresh", "reader" } : RUnlock(p)

CacheSpec == CacheSpecInit /\ [][CacheNext]_vars

\* ------------------------------------------- the tool calls one after another

\* The server is serving and its startup task has failed to start the
\* driver, the device being connected afterwards.
DriverInit ==
    /\ remote \in DevicePool
    /\ remote0 = remote
    /\ forward = FALSE
    /\ pc = "idle"
    /\ op = "none"
    /\ args = NoArgs
    /\ started = FALSE
    /\ currentTabs = << >>
    /\ tabsToClose = << >>
    /\ idx = 0
    /\ exists = NoExists
    /\ result = NewResult
    /\ response = NoResponse
    /\ calls = << >>
    /\ server = "serving"
    /\ tabCache = << >>
    /\ lastUpdated = 0
    /\ cacheSize = DefaultCacheSize
    /\ clock = 0
    /\ rw = NoLock
    /\ ppc = [p \in Procs |-> IF p = "populate" THEN "done" ELSE "idle"]
    /\ pfetched = [p \in Procs |-> << >>]
    /\ pret = [p \in Procs |-> IF p = "populate" THEN "errStart" ELSE "none"]
    /\ pseen = [p \in Procs |-> NoSeen]
    /\ pcalls = [p \in Procs |-> IF p = "populate" THEN << "Start" >> ELSE << >>]
    /\ lastSwap = << << >>, 0 >>
    /\ runs = 0
    /\ env = NoEnv

\* no refresh_tab_cache call has been made
NoRefreshYet == runs = 0 /\ ppc["refresh"] = "idle"

\* close_tab, close_tabs_bulk, copy_tabs_android, reopen_tabs and
\* refresh_tab_cache, each call made when the one before has returned, the
\* refresh_tab_cache calls after the others
DriverNext ==
    \/ NoRefreshYet /\ Next
    \/ NoRefreshYet /\ copyTabsAndroid
    \/ NoRefreshYet /\ CopyLoadTabs
    \/ NoRefreshYet /\ reopenTabs
    \/ NoRefreshYet /\ RestoreTabs
    \/ pc = "idle" /\ refreshTabCache
    \/ FetchStart("refresh")
    \/ FetchLoad("refresh")
    \/ FetchLock("refresh")
    \/ FetchSwap("refresh")
    \/ FetchStamp("refresh")
    \/ FetchUnlock("refresh")
    \/ FetchStop("refresh")
    \/ FetchReturn("refresh")
    \/ RLock("refresh")
    \/ ReadCache("refresh")
    \/ RUnlock("refresh")

DriverSpec == DriverInit /\ [][DriverNext]_vars

\* ----------------------------------------------------------- type invariant

TypeOK ==
    /\ pc \in { "idle", "start", "load", "exists", "post", "stop", "done",
                "copyload", "restore" }
    /\ op \in { "none", "closeTab", "closeTabsBulk", "copyTabsAndroid",
                "reopenTabs" }
    /\ started \in BOOLEAN
    /\ forward \in BOOLEAN
    /\ idx \in 0..(MaxIds + MaxTabs + 1)

\* ------------------------------------------------- what a tool call has done

IsPost(c) == c[1] = "POST"

IsAttempt(c) == c[1] = "CloseTab"

\* the close requests sent to the device by the running tool call
PostCalls == SelectSeq(calls, IsPost)

\* the tab ids driver.CloseTab was called with, in call order
AttemptIds ==
    LET a == SelectSeq(calls, IsAttempt)
    IN  [i \in 1..Len(a) |-> a[i][2]]

Bulk == op = "closeTabsBulk"

Single == op = "closeTab"

\* the handler is past its last step before the deferred Stop
Answered == pc \in { "stop", "done" }

\* closeTabsBulk got its live snapshot and found a non-empty selection
Selected ==
    /\ Bulk
    /\ Answered
    /\ response \notin { ErrUnsupported, ErrStart, ErrLoad, NoMatch }

\* driver.CloseTabs ran its loop to the end
LoopDone ==
    /\ Selected
    /\ args.confirm
    /\ ~args.dryRun

\* ------------------------------------------------------------------ claims

\* C1: close_tabs_bulk without tabIds and with filterUrl and filterTitle both
\* empty selects no tab: it sends no close request and, once it has its live
\* snapshot, answers with the no-op result, whatever confirm and dryRun are.
C1_EmptyFiltersSelectNothing ==
    (Bulk /\ args.tabIds = << >> /\ args.filterUrl = Empty
          /\ args.filterTitle = Empty)
    => /\ PostCalls = << >>
       /\ (Answered /\ response \notin { ErrUnsupported, ErrStart, ErrLoad })
              => response = NoMatch

\* C2: close_tabs_bulk with dryRun=true never calls driver.CloseTab and sends
\* no close request, whatever tabIds, filters and confirm are; it never asks
\* for confirmation, and with a non-empty selection it answers with the
\* preview of that selection.
C2_DryRunNeverCloses ==
    (Bulk /\ args.dryRun)
    => /\ PostCalls = << >>
       /\ AttemptIds = << >>
       /\ remote = remote0
       /\ pc \notin { "exists", "post" }
       /\ response.msg # ConfirmBulk(0).msg
       /\ Selected => /\ response.msg = "DRY RUN"
                      /\ ~response.err
                      /\ tabsToClose # << >>
                      /\ response.count = Len(tabsToClose)
       /\ response = NoMatch => tabsToClose = << >>

C2_Witness ==
    /\ Bulk
    /\ args.dryRun
    /\ ~args.confirm
    /\ pc = "done"
    /\ response.msg = "DRY RUN"
    /\ Len(response.entries) = 2

\* C3: a close tool call without confirm=true changes nothing on the device:
\* close_tab with confirm=false makes no driver call at all and answers
\* confirmation-required; close_tabs_bulk with dryRun=false and confirm=false
\* sends no close request and, for a non-empty selection, answers
\* confirmation-required with the count; the device's tabs stay as they were.
C3_UnconfirmedNeverMutates ==
    /\ (Single /\ ~args.confirm)
       => /\ calls = << >>
          /\ remote = remote0
          /\ pc = "done"
          /\ args.tabId # "" => response = ConfirmTab(args.tabId)
    /\ (Bulk /\ ~args.confirm /\ ~args.dryRun)
       => /\ PostCalls = << >>
          /\ AttemptIds = << >>
          /\ remote = remote0
          /\ Selected => response = ConfirmBulk(Len(tabsToClose))

C3_Witness ==
    /\ Bulk
    /\ ~args.confirm
    /\ ~args.dryRun
    /\ pc = "done"
    /\ response = ConfirmBulk(2)
    /\ Len(remote) = 2

\* C4: close_tab with confirm=true answers with the not-found error exactly
\* when the fresh fetch succeeded and does not hold the tab id; it then sends
\* no close request. A failed fetch and a failed close request give other
\* errors.
C4_NotFoundWithoutCloseRequest ==
    (Single /\ Answered /\ started)
    => /\ (exists.ok /\ ~exists.found) <=> (response.msg = ErrNotExist)
       /\ response.msg = ErrNotExist
              => /\ response.err
                 /\ PostCalls = << >>
                 /\ remote = remote0
       /\ ~exists.ok => response.msg = ErrVerify
       /\ PostCalls # << >> => response.msg \in { "Successfully closed tab",
                                                  ErrTransport, ErrStatus }

C4_Witness ==
    /\ Single
    /\ pc = "done"
    /\ args.confirm
    /\ exists.ok
    /\ args.tabId \notin IdsOf(remote0)
    /\ response.msg = ErrNotExist
    /\ remote # << >>

\* C5: close_tab for a platform other than android answers with the
\* unsupported-platform error whatever confirm is, never with
\* confirmation-required, and makes no driver call.
C5_CloseTabUnsupportedPlatform ==
    (Single /\ args.platform # "android" /\ args.tabId # "")
    => /\ pc = "done"
       /\ response = ErrUnsupported
       /\ calls = << >>

\* C6: close_tabs_bulk for a platform other than android answers with the
\* unsupported-platform error before any driver call (Start, LoadTabs,
\* CloseTab), whatever tabIds, filters, confirm and dryRun are.
C6_BulkUnsupportedPlatform ==
    (Bulk /\ args.platform # "android")
    => /\ pc = "done"
       /\ response = ErrUnsupported
       /\ calls = << >>
       /\ ~started
       /\ remote = remote0

C6_Witness ==
    /\ Bulk
    /\ args.platform = "ios"
    /\ args.confirm
    /\ ~args.dryRun
    /\ args.tabIds # << >>
    /\ args.tabIds[1] \in IdsOf(remote)
    /\ pc = "done"

\* C7: close_tabs_bulk with dryRun=false and confirm=true calls
\* driver.CloseTab once per selected id, in selection order: at every moment
\* the ids attempted so far are a prefix of the selection, and when the
\* handler answers they are the whole selection, whatever failed.
C7_OneAttemptPerIdInOrder ==
    Bulk
    => /\ Len(AttemptIds) <= Len(tabsToClose)
       /\ AttemptIds = SubSeq(tabsToClose, 1, Len(AttemptIds))
       /\ Len(PostCalls) <= Len(AttemptIds)
       /\ pc = "exists" => Len(AttemptIds) = idx - 1
       /\ pc = "post" => Len(AttemptIds) = idx
       /\ LoopDone => AttemptIds = tabsToClose

C7_Witness ==
    /\ LoopDone
    /\ pc = "done"
    /\ Len(tabsToClose) = 2
    /\ result.FailedTabIDs = << tabsToClose[1] >>
    /\ result.SuccessCount = 1
    /\ AttemptIds = tabsToClose

\* C8 as stated: after a bulk close succeeded + len(failed) = len(requested),
\* failed being the map from tab id to error, for every requested id list.
C8_SucceededPlusFailedMap ==
    LoopDone
    => result.SuccessCount + Cardinality(DOMAIN result.FailedErrors)
           = Len(tabsToClose)

\* the ids of a sequence are pairwise distinct
NoDuplicates(s) == \A i, j \in 1..Len(s) : i # j => s[i] # s[j]

\* C8 as amended: after a bulk close SuccessCount + FailedCount =
\* len(requested) for every requested id list, FailedCount = len(FailedTabIDs)
\* and the keys of FailedErrors are the ids of FailedTabIDs; succeeded +
\* len(FailedErrors) = len(requested) when no id failed more than once.
C8_SucceededPlusFailedCount ==
    LoopDone
    => /\ result.SuccessCount + result.FailedCount = Len(tabsToClose)
       /\ result.FailedCount = Len(result.FailedTabIDs)
       /\ DOMAIN result.FailedErrors
              = { result.FailedTabIDs[i] : i \in 1..Len(result.FailedTabIDs) }
       /\ NoDuplicates(result.FailedTabIDs)
              => result.SuccessCount + Cardinality(DOMAIN result.FailedErrors)
                     = Len(tabsToClose)

C8_Witness ==
    /\ LoopDone
    /\ pc = "done"
    /\ Len(tabsToClose) = 2
    /\ tabsToClose[1] = tabsToClose[2]
    /\ result.FailedCount = 2
    /\ Cardinality(DOMAIN result.FailedErrors) = 1

\* C9: a bulk close with at least one success and at least one failure is
\* answered as a partial success that is not an error return, with the
\* succeeded count and the error reason of every failed id.
C9_PartialSuccessReported ==
    (LoopDone /\ pc = "done" /\ result.SuccessCount > 0
              /\ result.FailedCount > 0)
    => /\ ~response.err
       /\ response.count = result.SuccessCount
       /\ response.reasons = result.FailedErrors

\* the status a caller reads off the answer of close_tabs_bulk
Status(r) == IF r.err THEN r.msg ELSE "success"

\* C10: the answer of close_tabs_bulk has one status for all closes
\* succeeded, another for some succeeded and some failed, and a third for
\* every close failed.
C10_ThreeOutcomes ==
    (LoopDone /\ pc = "done")
    => /\ result.FailedCount = 0 => Status(response) = "success"
       /\ (result.FailedCount > 0 /\ result.SuccessCount > 0)
              => Status(response) = "partially successful"
       /\ (result.FailedCount > 0 /\ result.SuccessCount = 0)
              => Status(response) \notin { "success", "partially successful" }

\* closeTabsBulk got its live snapshot (LoadTabs succeeded)
Loaded ==
    /\ Bulk
    /\ Answered
    /\ response \notin { ErrUnsupported, ErrStart, ErrLoad }

\* s is a prefix of t
IsPrefix(s, t) == Len(s) <= Len(t) /\ s = SubSeq(t, 1, Len(s))

\* C11: in close_tabs_bulk with non-empty tabIds the selection is the given
\* tabIds, whatever filterUrl and filterTitle are: the ids previewed, counted
\* in the confirmation and attempted by the close loop are those of tabIds.
C11_ExplicitIdsOverrideFilters ==
    (Bulk /\ args.tabIds # << >>)
    => /\ tabsToClose \in { << >>, args.tabIds }
       /\ IsPrefix(AttemptIds, args.tabIds)
       /\ Loaded => /\ tabsToClose = args.tabIds
                    /\ response # NoMatch
                    /\ (~args.dryRun /\ ~args.confirm)
                           => response = ConfirmBulk(Len(args.tabIds))
                    /\ args.dryRun
                           => response = DryRunPreview(Len(args.tabIds),
                                  PreviewEntries(args.tabIds, currentTabs))
       /\ LoopDone => /\ AttemptIds = args.tabIds
                      /\ response.total = Len(args.tabIds)

C11_Witness ==
    /\ LoopDone
    /\ pc = "done"
    /\ args.tabIds = << "c" >>
    /\ args.filterUrl = << "x" >>
    /\ "c" \in IdsOf(remote0)
    /\ ~matchesPattern(<< "g" >>, args.filterUrl)
    /\ result.SuccessCount = 1
    /\ "c" \notin IdsOf(remote)

\* the two letters are equal up to case
EqFold(c, d) ==
    \/ c = d
    \/ { c, d } \in { { "g", "G" }, { "o", "O" }, { "x", "X" } }

\* pattern is a case-insensitive substring of text
FoldSubstring(text, pattern) ==
    \E off \in 0..Len(text) :
        /\ off + Len(pattern) <= Len(text)
        /\ \A k \in 1..Len(pattern) : EqFold(text[off + k], pattern[k])

\* a filter that is given (non-empty) matches the text
FilterHolds(text, pattern) ==
    pattern # Empty => (pattern = Star \/ FoldSubstring(text, pattern))

\* the positions of the live snapshot that satisfy every given filter
MatchingPositions ==
    { i \in 1..Len(currentTabs) :
        /\ FilterHolds(currentTabs[i].url, args.filterUrl)
        /\ FilterHolds(currentTabs[i].title, args.filterTitle) }

\* the k-th smallest element of a set of positions
KthOf(P, k) == CHOOSE i \in P : Cardinality({ j \in P : j < i }) = k - 1

\* C12: in close_tabs_bulk without tabIds the selection is, in snapshot
\* order, the ids of the live tabs that satisfy every given filter, a filter
\* matching when it is "*" or a case-insensitive substring of the url
\* (filterUrl) or the title (filterTitle); filterUrl="*" alone selects all.
C12_FilterSelection ==
    (Loaded /\ args.tabIds = << >>)
    => /\ Len(tabsToClose) = Cardinality(MatchingPositions)
       /\ \A k \in 1..Len(tabsToClose) :
              tabsToClose[k] = currentTabs[KthOf(MatchingPositions, k)].id
       /\ (args.filterUrl = Star /\ args.filterTitle = Empty)
              => tabsToClose = [i \in 1..Len(currentTabs) |-> currentTabs[i].id]

C12_Witness ==
    /\ Loaded
    /\ pc = "done"
    /\ args.tabIds = << >>
    /\ args.filterUrl = << "x" >>
    /\ args.filterTitle = << "G", "O" >>
    /\ Len(currentTabs) = 2
    /\ Len(tabsToClose) = 1

\* ------------------------------------------------------- claims on the cache

Min(a, b) == IF a <= b THEN a ELSE b

\* the goroutine has stored its fetch and still holds the write lock
Swapped(p) == ppc[p] \in { "stamp", "unlock" } /\ rw.writer = p

\* C13: the cache never holds more tabs than its capacity, and once a
\* refresh has stored its fetch F the cache is the first min(|F|, capacity)
\* tabs of F in fetch order, whatever it held before.
C13_CacheBoundedAndReplaced ==
    /\ Len(tabCache) <= cacheSize
    /\ \A p \in Fetchers :
           Swapped(p)
           => /\ Len(tabCache) = Min(Len(pfetched[p]), cacheSize)
              /\ \A i \in 1..Len(tabCache) : tabCache[i] = pfetched[p][i]

\* a fetch of two tabs replaces a cache holding another tab, cut to one tab
C13_Witness ==
    /\ Swapped("refresh")
    /\ ppc["refresh"] = "stamp"
    /\ cacheSize = 1
    /\ Len(pfetched["refresh"]) = 2
    /\ tabCache = << pfetched["refresh"][1] >>
    /\ lastSwap[2] = 1
    /\ Len(lastSwap[1]) = 1
    /\ lastSwap[1] # tabCache

\* the errors fetchAndCacheAndroidTabs returns
FetchErrors == { "errStart", "errLoad" }

\* the run of fetchAndCacheAndroidTabs of the goroutine has failed
Failed(p) == pret[p] \in FetchErrors

\* C14: a refresh whose driver start or tab fetch fails changes neither the
\* cached entries nor lastUpdated, and hands the error to its caller: the
\* cache is written only by steps of a run that has not failed, and a failed
\* run ends without taking a lock and without an answer read from the cache.
C14_FailedRefreshKeepsCache ==
    /\ [](\A p \in Fetchers :
             Failed(p)
             => /\ ppc[p] \in { "stop", "ret", "done" }
                /\ rw.writer # p
                /\ pseen[p] = NoSeen
                /\ pcalls[p] \in { << "Start" >>,
                                   << "Start", "LoadTabs" >>,
                                   << "Start", "LoadTabs", "Stop" >> })
    /\ [][ (tabCache' # tabCache \/ lastUpdated' # lastUpdated)
           => \E p \in Fetchers :
                  /\ ppc[p] \in { "swap", "stamp" }
                  /\ ppc'[p] # ppc[p]
                  /\ pret[p] = "none"
                  /\ pret'[p] = "none" ]_vars

\* refresh_tab_cache has failed to load the tabs after the startup task had
\* filled the cache, which is as the startup task left it
C14_Witness ==
    /\ ppc["refresh"] = "done"
    /\ pret["refresh"] = "errLoad"
    /\ ppc["populate"] = "done"
    /\ pret["populate"] = "nil"
    /\ tabCache # << >>
    /\ lastUpdated = 1
    /\ lastSwap = << tabCache, 1 >>

\* the goroutine is starting the driver or fetching the tabs
Fetching(p) == ppc[p] \in { "start", "load" }

\* the goroutine is between Lock and Unlock
InSwap(p) == ppc[p] \in { "swap", "stamp", "unlock" }

\* the goroutine has called Lock and has not yet called Unlock
AtLock(p) == ppc[p] = "lock" \/ InSwap(p)

\* what the goroutine has read from the cache
Observed(p) == << pseen[p].tabs, pseen[p].stamp >>

\* C15: a refresh holds the write lock only from Lock to Unlock around the
\* two assignments, never while it starts the driver or fetches the tabs; a
\* reader that asks for the read lock while no refresh is between its call of
\* Lock and its Unlock (so also while one starts its driver or fetches) gets
\* it, and what a reader reads while a fetch is in progress is the last
\* snapshot a refresh has stored.
C15_LockOnlyForSwap ==
    /\ \A p \in Fetchers : rw.writer = p <=> InSwap(p)
    /\ \A p \in Fetchers : Fetching(p) => rw.writer # p
    /\ \A r \in { "refresh", "reader" } :
           /\ (ppc[r] = "rlock" /\ \A p \in Fetchers : ~AtLock(p))
                  => ENABLED RLock(r)
           /\ (ppc[r] = "runlock" /\ \E p \in Fetchers : Fetching(p))
                  => Observed(r) = lastSwap

\* a reader has read the snapshot of the startup task while refresh_tab_cache
\* is fetching other tabs
C15_Witness ==
    /\ ppc["refresh"] = "load"
    /\ ppc["reader"] = "runlock"
    /\ "reader" \in rw.readers
    /\ lastSwap[2] = 1
    /\ Observed("reader") = lastSwap
    /\ pseen["reader"].tabs # << >>
    /\ remote # pseen["reader"].tabs

\* the next step of the goroutine writes s.tabCache or s.lastUpdated
WritesCache(p) == ppc[p] \in { "swap", "stamp" }

\* the next step of the goroutine reads s.tabCache or s.lastUpdated
ReadsCache(p) == ppc[p] \in { "read", "log" }

\* C16: every goroutine that writes the cache holds the write lock, and every
\* goroutine that reads it holds the read or the write lock, the startup
\* population task included.
C16_AccessUnderLock ==
    \A p \in Procs :
        /\ WritesCache(p) => rw.writer = p
        /\ ReadsCache(p) => (p \in rw.readers \/ rw.writer = p)

\* C17: at most one refresh is between Lock and Unlock, no reader reads
\* while one is, and the (entries, lastUpdated) a reader has read are those
\* one refresh stored together (at first the empty cache with the zero time):
\* never the entries of one refresh with the time of another.
C17_SwapsExclusiveReadsConsistent ==
    /\ Cardinality({ p \in Fetchers : InSwap(p) }) <= 1
    /\ \A p \in Fetchers : InSwap(p) => rw.readers = {}
    /\ \A r \in { "refresh", "reader" } :
           /\ ppc[r] \in { "read", "runlock" }
                  => /\ r \in rw.readers
                     /\ \A p \in Fetchers : ~InSwap(p)
                     /\ << tabCache, lastUpdated >> = lastSwap
           /\ ppc[r] = "runlock" => Observed(r) = lastSwap
    /\ (\A p \in Fetchers : ~InSwap(p)) => << tabCache, lastUpdated >> = lastSwap

\* a reader has read what the startup task stored while refresh_tab_cache,
\* with other tabs fetched, is blocked in Lock
C17_Witness ==
    /\ ppc["reader"] = "runlock"
    /\ ppc["refresh"] = "lock"
    /\ "refresh" \in rw.pending
    /\ pfetched["refresh"] # << >>
    /\ Truncate(pfetched["refresh"], cacheSize) # tabCache
    /\ Observed("reader") = << tabCache, 1 >>
    /\ tabCache # << >>

\* populateTabCache has ended with an error or a panic
PopulateFailed == Failed("populate") \/ pret["populate"] = "panic"

\* C18: neither an error nor a panic of the startup population task stops
\* the server: the process is never brought down, Serve never waits for the
\* task, and a task that failed has stored nothing, so that the cache stays
\* empty with the zero time until a refresh_tab_cache call stores something.
C18_PopulationFailsSoft ==
    /\ server # "crashed"
    /\ server = "spawned" => ENABLED Serve
    /\ PopulateFailed
           => /\ rw.writer # "populate"
              /\ \A i \in 1..Len(pcalls["populate"]) :
                     pcalls["populate"][i] \in { "Start", "LoadTabs", "Stop" }
              /\ runs = 0 => (tabCache = << >> /\ lastUpdated = 0)

\* the startup task has panicked in LoadTabs, and the server has answered a
\* cache_status call from the empty cache
C18_Witness ==
    /\ server = "serving"
    /\ ppc["populate"] = "done"
    /\ pret["populate"] = "panic"
    /\ pcalls["populate"] = << "Start", "LoadTabs", "Stop" >>
    /\ ppc["reader"] = "done"
    /\ pseen["reader"] = [tabs |-> << >>, stamp |-> 0, read |-> TRUE]
    /\ runs = 0

\* the goroutine is between its successful driver Start and its Stop
OwnsForward(p) ==
    ppc[p] \in { "load", "lock", "swap", "stamp", "unlock", "stop" }

\* the step sets up the port forward for the goroutine, or removes it
TouchesForward(q) ==
    \/ ppc[q] = "start" /\ ppc'[q] = "load"
    \/ ppc[q] = "stop" /\ ppc'[q] = "ret"

\* C19: while an operation is between its successful Start and its Stop, no
\* other operation sets up or removes the port forward, so the forward the
\* operation set up is there for it until its own Stop.
C19_ForwardExclusivelyOwned ==
    /\ [](\A p \in Fetchers : OwnsForward(p) => forward)
    /\ [][ \A p, q \in Fetchers :
               (p # q /\ OwnsForward(p)) => ~TouchesForward(q) ]_vars

\* ------------------------------------------- claims on the use of the driver

IsStop(c) == c[1] = "Stop"

IsStart(c) == c[1] = "Start"

\* the Stop calls of the running tool call
StopCalls == Len(SelectSeq(calls, IsStop))

IsStopName(c) == c = "Stop"

\* the Stop calls of the running refresh_tab_cache call
RefreshStopCalls == Len(SelectSeq(pcalls["refresh"], IsStopName))

\* fetchAndCacheAndroidTabs has returned to refreshTabCache
RefreshFetched ==
    ppc["refresh"] \in { "ret", "rlock", "read", "runlock", "done" }

\* C20: a handler that has started its driver calls Stop exactly once, as
\* its last driver call, whatever it returns (an error, the dry-run preview,
\* the confirmation request, the no-match message or a result), and a handler
\* whose Start failed, or that returned before Start, never calls Stop:
\* close_tab, close_tabs_bulk, copy_tabs_android, reopen_tabs (calls) and
\* refresh_tab_cache (pcalls).
C20_StopOncePerStartedDriver ==
    /\ Len(SelectSeq(calls, IsStart)) <= 1
    /\ StopCalls <= 1
    /\ StopCalls = 1 => (started /\ IsStart(calls[1]) /\ IsStop(calls[Len(calls)]))
    /\ pc = "done" => StopCalls = (IF started THEN 1 ELSE 0)
    /\ pc \notin { "done", "idle" } => StopCalls = 0
    /\ RefreshStopCalls <= 1
    /\ RefreshStopCalls = 1
           => /\ pcalls["refresh"][1] = "Start"
              /\ pcalls["refresh"][Len(pcalls["refresh"])] = "Stop"
                     \/ ppc["refresh"] \in { "rlock", "read", "runlock", "done" }
    /\ RefreshFetched
           => RefreshStopCalls = (IF pret["refresh"] = "errStart" THEN 0 ELSE 1)
    /\ ~RefreshFetched => RefreshStopCalls = 0

\* close_tabs_bulk has returned its dry-run preview after Start, LoadTabs and
\* Stop
C20_Witness ==
    /\ pc = "done"
    /\ op = "closeTabsBulk"
    /\ response.msg = "DRY RUN"
    /\ calls = << << "Start", "" >>, << "LoadTabs", "" >>, << "Stop", "" >> >>

\* ------------------------------------------------------------ search_tabs

\* largest number of tabs in the cache that search_tabs reads
MaxCached == 3

\* largest limit argument of search_tabs
MaxLimit == 2

\* the limit searchTabs uses when args.Limit is 0
DefaultLimit == 10

\* loader.Tab values the cache may hold
CachedPool ==
    TabPool \cup { [id |-> "d", title |-> << "o" >>, url |-> << "x" >>] }

\* contents of s.tabCache: at most MaxCached tabs with pairwise distinct ids
CachePool ==
    { s \in SeqsUpTo(CachedPool, MaxCached) :
        \A i, j \in 1..Len(s) : i # j => s[i].id # s[j].id }

\* values of the query argument
QueryPool == { Empty, << "x" >>, << "G", "O" >>, << "g" >> }

\* SearchTabsArgs
SearchTabsArgs ==
    { [query |-> q, domain |-> d, title |-> t, url |-> u, limit |-> l,
       format |-> f] :
        q \in QueryPool, d \in { Empty, << "O" >> }, t \in { Empty, << "o" >> },
        u \in { Empty, << "X" >> }, l \in (0 - 1)..MaxLimit,
        f \in { "", "yaml" } }

\* strings.HasPrefix
HasPrefix(s, prefix) ==
    Len(s) >= Len(prefix) /\ SubSeq(s, 1, Len(prefix)) = prefix

\* strings.EqualFold, on the letters of the model
EqualFold(s, t) == ToLower(s) = ToLower(t)

\* searchTabs: args.Limit after the default is set
searchLimit(limit) == IF limit = 0 THEN DefaultLimit ELSE limit

\* searchTabs, the branch of a query that matched: what it adds to the
\* score, in tenths
queryScore(tab, q) ==
    LET titleMatch == Contains(ToLower(tab.title), ToLower(q))
        urlMatch == Contains(ToLower(tab.url), ToLower(q))
    IN  (IF titleMatch THEN 10 ELSE 0)
        + (IF urlMatch THEN 5 ELSE 0)
        + (IF EqualFold(tab.title, q) THEN 20 ELSE 0)
        + (IF HasPrefix(ToLower(tab.title), ToLower(q)) THEN 10 ELSE 0)

\* a scoreTab that lets a tab through when some filter holds
scoreTabAnyFilter(tab, a) ==
    LET domainOk == Contains(ToLower(tab.url), ToLower(a.domain))
        titleOk == Contains(ToLower(tab.title), ToLower(a.title))
        urlOk == Contains(ToLower(tab.url), ToLower(a.url))
        queryOk == \/ Contains(ToLower(tab.title), ToLower(a.query))
                   \/ Contains(ToLower(tab.url), ToLower(a.query))
        none == a.query = Empty /\ a.domain = Empty /\ a.title = Empty
                    /\ a.url = Empty
    IN  [matches |-> \/ none
                     \/ a.domain # Empty /\ domainOk
                     \/ a.title # Empty /\ titleOk
                     \/ a.url # Empty /\ urlOk
                     \/ a.query # Empty /\ queryOk,
         score |-> IF none
                   THEN 1
                   ELSE (IF a.domain # Empty /\ domainOk THEN 20 ELSE 0)
                        + (IF a.title # Empty /\ titleOk THEN 15 ELSE 0)
                        + (IF a.url # Empty /\ urlOk THEN 10 ELSE 0)
                        + (IF a.query # Empty /\ queryOk
                           THEN queryScore(tab, a.query) ELSE 0)]

\* searchTabs, the body of the loop over cachedTabs: whether the tab
\* matches, and its score in tenths (2.0 is 20, 0.1 is 1)
scoreTab(tab, a) ==
    LET domainOk == Contains(ToLower(tab.url), ToLower(a.domain))
        titleOk == Contains(ToLower(tab.title), ToLower(a.title))
        urlOk == Contains(ToLower(tab.url), ToLower(a.url))
        queryOk == \/ Contains(ToLower(tab.title), ToLower(a.query))
                   \/ Contains(ToLower(tab.url), ToLower(a.query))
        none == a.query = Empty /\ a.domain = Empty /\ a.title = Empty
                    /\ a.url = Empty
    IN  [matches |-> \/ none
                     \/ /\ a.domain # Empty => domainOk
                        /\ a.title # Empty => titleOk
                        /\ a.url # Empty => urlOk
                        /\ a.query # Empty => queryOk,
         score |-> IF none
                   THEN 1
                   ELSE (IF a.domain # Empty /\ domainOk THEN 20 ELSE 0)
                        + (IF a.title # Empty /\ titleOk THEN 15 ELSE 0)
                        + (IF a.url # Empty /\ urlOk THEN 10 ELSE 0)
                        + (IF a.query # Empty /\ queryOk
                           THEN queryScore(tab, a.query) ELSE 0)]

RECURSIVE scoreTabs(_, _)
\* searchTabs, the loop over cachedTabs: the results in the order of the
\* cache, before the sort
scoreTabs(tabs, a) ==
    IF tabs = << >>
    THEN << >>
    ELSE LET r == scoreTab(Head(tabs), a)
             rest == scoreTabs(Tail(tabs), a)
         IN  IF r.matches
             THEN << [tab |-> Head(tabs), score |-> r.score] >> \o rest
             ELSE rest

\* results[i], results[j] = results[j], results[i]
Swap(rs, i, j) == [rs EXCEPT ![i] = rs[j], ![j] = rs[i]]

RECURSIVE sortInner(_, _, _)
\* searchTabs, the inner loop of the sort: j from i+1 to the end
sortInner(rs, i, j) ==
    IF j > Len(rs)
    THEN rs
    ELSE sortInner(IF rs[i].score < rs[j].score THEN Swap(rs, i, j) ELSE rs,
                   i, j + 1)

RECURSIVE sortOuter(_, _)
\* searchTabs, the outer loop of the sort: i from the first to the last but one
sortOuter(rs, i) ==
    IF i > Len(rs) - 1
    THEN rs
    ELSE sortOuter(sortInner(rs, i, i + 1), i + 1)

\* a searchTabs that returns the results in the order of the cache
sortResultsNone(rs) == rs

\* searchTabs: the sort of the results by score
sortResults(rs) == sortOuter(rs, 1)

\* a searchTabs that returns every result
limitResultsNone(rs, limit) == [panic |-> FALSE, results |-> rs]

\* searchTabs: results[:args.Limit] when there are more results than the
\* limit; a negative bound of a slice expression panics
limitResults(rs, limit) ==
    IF Len(rs) > limit
    THEN IF limit < 0
         THEN [panic |-> TRUE, results |-> << >>]
         ELSE [panic |-> FALSE, results |-> SubSeq(rs, 1, limit)]
    ELSE [panic |-> FALSE, results |-> rs]

\* format.ParseFormat, for the values of the format argument
ParseFormat(f) == IF f = "yaml" THEN "yaml" ELSE "json"

\* the zero value of loader.Tab
ZeroTab == [id |-> "", title |-> Empty, url |-> Empty]

\* make([]loader.Tab, n)
make(n) == [i \in 1..n |-> ZeroTab]

\* copy with its arguments exchanged: the zero tabs are written over src
copyExchanged(dst, src) ==
    [dst |-> dst,
     src |-> [i \in 1..Len(src) |-> IF i <= Len(dst) THEN dst[i] ELSE src[i]]]

\* copy(dst, src): the two slices after the call
copy(dst, src) ==
    [dst |-> [i \in 1..Len(dst) |-> IF i <= Len(src) THEN src[i] ELSE dst[i]],
     src |-> src]

\* searchTabs: the cache is empty
NoTabsCached == Resp(FALSE, "No tabs are currently cached", 0, 0, << >>, << >>)

\* searchTabs: the results, formatted as f
Found(rs, f) ==
    Resp(FALSE, IF f = "yaml" THEN "Found tabs (format: yaml)"
                ELSE "Found tabs (format: json)",
         Len(rs), 0, << >>, rs)

\* searchTabs ends in a run-time panic of the slice expression
SearchPanic ==
    Resp(TRUE, "panic: slice bounds out of range", 0, 0, << >>, << >>)

\* The server is serving; its cache was never populated, or a refresh has
\* stored the tabs it read from the device.
SearchInit ==
    /\ remote = << >>
    /\ remote0 = remote
    /\ forward = FALSE
    /\ pc = "idle"
    /\ op = "none"
    /\ args = NoArgs
    /\ started = FALSE
    /\ currentTabs = << >>
    /\ tabsToClose = << >>
    /\ idx = 0
    /\ exists = NoExists
    /\ result = NewResult
    /\ response = NoResponse
    /\ calls = << >>
    /\ server = "serving"
    /\ tabCache \in CachePool
    /\ lastUpdated \in (IF tabCache = << >> THEN { 0, 1 } ELSE { 1 })
    /\ cacheSize = DefaultCacheSize
    /\ clock = lastUpdated
    /\ rw = NoLock
    /\ ppc = [p \in Procs |-> IF p = "populate" THEN "done" ELSE "idle"]
    /\ pfetched = [p \in Procs |-> << >>]
    /\ pret = [p \in Procs |-> "none"]
    /\ pseen = [p \in Procs |-> NoSeen]
    /\ pcalls = [p \in Procs |-> << >>]
    /\ lastSwap = << tabCache, lastUpdated >>
    /\ runs = 0
    /\ env = NoEnv

\* search_tabs: the handler is called and sets the default of args.Limit
searchTabs ==
    /\ pc = "idle"
    /\ \E a \in SearchTabsArgs :
           args' = [a EXCEPT !.limit = searchLimit(a.limit)]
    /\ op' = "search_tabs"
    /\ pc' = "snapshot"
    /\ calls' = << << "searchTabs", "" >> >>
    /\ UNCHANGED << remote, remote0, forward, started, currentTabs,
                    tabsToClose, idx, exists, result, response >>
    /\ UNCHANGED cacheVars

\* search_tabs: the client sends the request it has sent before; the
\* answer to the first request stays with the client
searchTabsAgain ==
    /\ pc = "done"
    /\ op = "search_tabs"
    /\ Len(calls) = 1
    /\ args' = [args EXCEPT !.limit = searchLimit(args.limit)]
    /\ pc' = "snapshot"
    /\ calls' = Append(calls, << "searchTabs", "" >>)
    /\ UNCHANGED << remote, remote0, forward, op, started, currentTabs,
                    tabsToClose, idx, exists, result, response >>
    /\ UNCHANGED cacheVars

\* searchTabs: RLock, cachedTabs := make(..); copy(cachedTabs, s.tabCache),
\* RUnlock, and the return when the copy is empty
SearchSnapshot ==
    /\ pc = "snapshot"
    /\ LET c == copy(make(Len(tabCache)), tabCache)
       IN  /\ currentTabs' = c.dst
           /\ tabCache' = c.src
           /\ IF Len(c.dst) = 0
              THEN response' = NoTabsCached /\ pc' = "done"
              ELSE response' = response /\ pc' = "rank"
    /\ UNCHANGED << remote, remote0, forward, op, args, started, tabsToClose,
                    idx, exists, result, calls >>
    /\ UNCHANGED << server, lastUpdated, cacheSize, clock, rw, ppc, pfetched,
                    pret, pseen, pcalls, lastSwap, runs, env >>

\* searchTabs: the filters and scores, the sort, the limit and the format
SearchRank ==
    /\ pc = "rank"
    /\ LET lim == limitResults(sortResults(scoreTabs(currentTabs, args)),
                               args.limit)
       IN  response' = IF lim.panic
                       THEN SearchPanic
                       ELSE Found(lim.results, ParseFormat(args.format))
    /\ pc' = "done"
    /\ UNCHANGED << remote, remote0, forward, op, args, started, currentTabs,
                    tabsToClose, idx, exists, result, calls >>
    /\ UNCHANGED cacheVars

SearchNext ==
    \/ searchTabs
    \/ searchTabsAgain
    \/ SearchSnapshot
    \/ SearchRank
    \/ Return

SearchSpec == SearchInit /\ [][SearchNext]_vars

\* ------------------------------------------------- claims on search_tabs

\* a search_tabs call has returned
Searched == op = "search_tabs" /\ pc = "done"

\* none of query, domain, title and url is set
NoFilters(a) ==
    a.query = Empty /\ a.domain = Empty /\ a.title = Empty /\ a.url = Empty

\* C21: a search_tabs call with none of query, domain, title and url set and
\* a limit of at least one (the default when it was 0) returns exactly the
\* first min(N, limit) tabs of the cache of N tabs, each with the score 0.1
\* (1 tenth), in the order of the cache.
C21_NoFilterReturnsFirstTabs ==
    (Searched /\ NoFilters(args) /\ args.limit > 0)
        => /\ ~response.err
           /\ response.count = Min(Len(tabCache), args.limit)
           /\ response.entries =
                  [i \in 1..Min(Len(tabCache), args.limit) |->
                      [tab |-> tabCache[i], score |-> 1]]

\* three tabs are cached and an unfiltered search with limit 2 returned two
C21_Witness ==
    /\ Searched
    /\ NoFilters(args)
    /\ args.limit = 2
    /\ Len(tabCache) = 3
    /\ Len(response.entries) = 2

\* the limit the client sent was zero or negative: searchTabs has replaced
\* a zero by the default, which is above every limit the model sends
LimitNotPositive(a) == a.limit < 0 \/ a.limit = DefaultLimit

\* C22: a search_tabs call whose limit is zero or negative completes
\* normally and returns min(matches, 10) results, as a call without a limit
\* does.
C22_NonPositiveLimitIsDefault ==
    (Searched /\ LimitNotPositive(args))
        => /\ ~response.err
           /\ response.count =
                  Min(Len(scoreTabs(tabCache, args)), DefaultLimit)

\* the position of a cached tab in the cache
PosIn(tabs, tab) == CHOOSE i \in 1..Len(tabs) : tabs[i] = tab

\* the results are in the order of descending scores
Descending(rs) ==
    \A i, j \in 1..Len(rs) : i < j => rs[i].score >= rs[j].score

\* results of equal score are in the order of the cache
TiesInCacheOrder(rs, tabs) ==
    \A i, j \in 1..Len(rs) :
        (i < j /\ rs[i].score = rs[j].score)
            => PosIn(tabs, rs[i].tab) < PosIn(tabs, rs[j].tab)

\* C23: the result list of search_tabs is sorted by score descending, and
\* results of equal score keep the order the tabs have in the cache.
C23_SortedStable ==
    (Searched /\ ~response.err)
        => /\ Descending(response.entries)
           /\ TiesInCacheOrder(response.entries, tabCache)

\* sub occurs in text, ignoring case
ContainsFold(text, sub) == Contains(ToLower(text), ToLower(sub))

\* the tab satisfies every filter that a sets
Satisfies(tab, a) ==
    /\ a.domain # Empty => ContainsFold(tab.url, a.domain)
    /\ a.title # Empty => ContainsFold(tab.title, a.title)
    /\ a.url # Empty => ContainsFold(tab.url, a.url)
    /\ a.query # Empty => \/ ContainsFold(tab.title, a.query)
                          \/ ContainsFold(tab.url, a.query)

\* the score, in tenths, the filters that a sets give to a tab satisfying them
FilterScore(tab, a) ==
    (IF a.domain # Empty THEN 20 ELSE 0)
    + (IF a.title # Empty THEN 15 ELSE 0)
    + (IF a.url # Empty THEN 10 ELSE 0)
    + (IF a.query # Empty
       THEN (IF ContainsFold(tab.title, a.query) THEN 10 ELSE 0)
            + (IF ContainsFold(tab.url, a.query) THEN 5 ELSE 0)
            + (IF ToLower(tab.title) = ToLower(a.query) THEN 20 ELSE 0)
            + (IF HasPrefix(ToLower(tab.title), ToLower(a.query))
               THEN 10 ELSE 0)
       ELSE 0)

\* the cached tabs that satisfy every filter that a sets
SatisfyingTabs(tabs, a) ==
    { tabs[i] : i \in { k \in 1..Len(tabs) : Satisfies(tabs[k], a) } }

\* the tabs of a result list
ResultTabs(rs) == { rs[i].tab : i \in 1..Len(rs) }

\* C24: search_tabs with some filter set and a limit of at least one returns
\* only cached tabs that satisfy every filter that is set, each once and with
\* the score 2.0 (domain) + 1.5 (title) + 1.0 (url) + query part (1.0 title
\* hit, 0.5 url hit, 2.0 title equal to the query, 1.0 title starting with
\* the query, ignoring case), and it returns all of them unless the limit
\* cuts the list: the tabs are included iff they satisfy the filters.
C24_IncludedIffFiltersAndScore ==
    (Searched /\ ~NoFilters(args) /\ args.limit > 0)
        => /\ ~response.err
           /\ ResultTabs(response.entries) \subseteq SatisfyingTabs(tabCache, args)
           /\ \A i \in 1..Len(response.entries) :
                  response.entries[i].score
                      = FilterScore(response.entries[i].tab, args)
           /\ Cardinality(ResultTabs(response.entries)) = Len(response.entries)
           /\ Len(response.entries)
                  = Min(Cardinality(SatisfyingTabs(tabCache, args)), args.limit)

\* a search with a domain and a query has returned one of three cached tabs,
\* with the score of a domain match and an exact title
C24_Witness ==
    /\ Searched
    /\ args.domain # Empty
    /\ args.query # Empty
    /\ args.title = Empty
    /\ args.url = Empty
    /\ Len(tabCache) = 3
    /\ Len(response.entries) = 1
    /\ response.entries[1].score = 65

\* the title of the tab is the query, ignoring case
ExactTitle(tab, q) == ToLower(tab.title) = ToLower(q)

\* the tab matches the query through its url and not through its title
UrlOnly(tab, q) == ContainsFold(tab.url, q) /\ ~ContainsFold(tab.title, q)

\* the position of a tab in a result list, 0 when it is not in the list
Rank(rs, tab) ==
    IF tab \in ResultTabs(rs)
    THEN CHOOSE i \in 1..Len(rs) : rs[i].tab = tab
    ELSE 0

\* C25: in a search_tabs call with a query, of two cached tabs that satisfy
\* the filters, one with the title equal to the query (ignoring case) and one
\* that matches the query through its url only, the second is returned only
\* behind the first, whatever the other filters and the limit are.
C25_ExactTitleAboveUrlOnly ==
    (Searched /\ args.query # Empty /\ ~response.err)
        => \A e, u \in SatisfyingTabs(tabCache, args) :
               (/\ ExactTitle(e, args.query)
                /\ UrlOnly(u, args.query)
                /\ Rank(response.entries, u) > 0)
                   => /\ Rank(response.entries, e) > 0
                      /\ Rank(response.entries, e) < Rank(response.entries, u)

\* the cache holds a tab matching by its url only before the tab with the
\* exact title, and the search has returned the two in the other order
C25_Witness ==
    /\ Searched
    /\ args.query # Empty
    /\ \E e, u \in SatisfyingTabs(tabCache, args) :
           /\ ExactTitle(e, args.query)
           /\ UrlOnly(u, args.query)
           /\ PosIn(tabCache, u) < PosIn(tabCache, e)
           /\ Rank(response.entries, u) > 0
           /\ Rank(response.entries, e) > 0
           /\ Rank(response.entries, e) < Rank(response.entries, u)

\* the request of the running search_tabs call was sent once before
Repeated == op = "search_tabs" /\ Len(calls) = 2

C27_EmptyDistinctFromNeverPopulated ==
    (Searched /\ tabCache = << >> /\ lastUpdated # 0)
        => response # NoTabsCached

\* ------------------------------------------- a reader beside a refresh

\* a reader that ranges over s.tabCache itself
cachedTabsLive(snapshot, live) == live

\* searchTabs, getCurrentTabsYAML: the slice the handler ranges over once it
\* has released the mutex is cachedTabs, the copy it made under RLock
cachedTabs(snapshot, live) == snapshot

\* The server is serving and its startup task has stored the tabs of the
\* device (remote0) in the cache.
ReaderInit ==
    /\ remote \in DevicePool
    /\ remote0 = remote
    /\ forward = FALSE
    /\ pc = "idle"
    /\ op = "none"
    /\ args = NoArgs
    /\ started = FALSE
    /\ currentTabs = << >>
    /\ tabsToClose = << >>
    /\ idx = 0
    /\ exists = NoExists
    /\ result = NewResult
    /\ response = NoResponse
    /\ calls = << >>
    /\ server = "serving"
    /\ cacheSize = DefaultCacheSize
    /\ tabCache = Truncate(remote, cacheSize)
    /\ lastUpdated = 1
    /\ clock = 1
    /\ rw = NoLock
    /\ ppc = [p \in Procs |-> IF p = "populate" THEN "done" ELSE "idle"]
    /\ pfetched = [p \in Procs |-> << >>]
    /\ pret = [p \in Procs |-> IF p = "populate" THEN "nil" ELSE "none"]
    /\ pseen = [p \in Procs |->
                   IF p = "populate"
                   THEN [tabs |-> tabCache, stamp |-> 0, read |-> TRUE]
                   ELSE NoSeen]
    /\ pcalls = [p \in Procs |->
                    IF p = "populate"
                    THEN << "Start", "LoadTabs", "Lock", "swap", "stamp",
                            "Unlock", "Stop", "read" >>
                    ELSE << >>]
    /\ lastSwap = << tabCache, lastUpdated >>
    /\ runs = 0
    /\ env = NoEnv

\* searchTabs, getCurrentTabsYAML: after RUnlock the handler ranges over
\* its tabs (the scoring loop, the formatter)
RangeTabs(p) ==
    /\ Running
    /\ ppc[p] = "done"
    /\ pseen[p].read
    /\ pcalls[p] # << >>
    /\ pcalls[p][Len(pcalls[p])] = "RUnlock"
    /\ pseen' = [pseen EXCEPT ![p].tabs = cachedTabs(@, tabCache)]
    /\ pcalls' = [pcalls EXCEPT ![p] = Append(@, "range")]
    /\ UNCHANGED << server, tabCache, lastUpdated, cacheSize, clock, rw, ppc,
                    pfetched, pret, lastSwap, runs >>
    /\ UNCHANGED << remote, forward, toolVars, env >>

\* a search_tabs call or a read of tabs://current beside a refresh_tab_cache
\* call
ReaderNext ==
    \/ refreshTabCache
    \/ cacheStatus
    \/ DeviceChange
    \/ FetchStart("refresh")
    \/ FetchLoad("refresh")
    \/ FetchLock("refresh")
    \/ FetchSwap("refresh")
    \/ FetchStamp("refresh")
    \/ FetchUnlock("refresh")
    \/ FetchStop("refresh")
    \/ FetchReturn("refresh")
    \/ \E p \in { "refresh", "reader" } : RLock(p)
    \/ \E p \in { "refresh", "reader" } : ReadCache(p)
    \/ \E p \in { "refresh", "reader" } : RUnlock(p)
    \/ RangeTabs("reader")

ReaderSpec == ReaderInit /\ [][ReaderNext]_vars

\* the reader has ranged over the tabs of its snapshot
Ranged(p) == pcalls[p] # << >> /\ pcalls[p][Len(pcalls[p])] = "range"

\* the model knows the entries the cache held when its last_updated was
\* stamp: it is the stamp of the startup task or of the last finished swap
KnownStamp(stamp) == stamp = 1 \/ stamp = lastSwap[2]

\* the entries the cache held when its last_updated was stamp: those of the
\* last finished swap, or those of the startup task
EntriesAt(stamp) ==
    IF stamp = lastSwap[2] THEN lastSwap[1] ELSE Truncate(remote0, cacheSize)

\* C28: the tabs a reader (search_tabs, tabs://current) ranges over are the
\* entries the cache held when the reader took its snapshot, also when a
\* refresh has replaced the entries of the cache since; and a step that
\* changes the cache leaves the snapshot of the reader as it is.
C28_SnapshotIsCopy ==
    /\ []((Ranged("reader") /\ KnownStamp(pseen["reader"].stamp))
            => pseen["reader"].tabs = EntriesAt(pseen["reader"].stamp))
    /\ [][(tabCache' # tabCache /\ pseen["reader"].read)
            => pseen'["reader"] = pseen["reader"]]_vars

\* the reader took its snapshot before a refresh replaced the entries, and
\* has ranged over it afterwards
C28_Witness ==
    /\ Ranged("reader")
    /\ pseen["reader"].stamp < lastUpdated
    /\ pseen["reader"].tabs # tabCache
    /\ Len(pseen["reader"].tabs) > 0

\* a cacheStatus that takes an empty cache for one never populated
statusTextByCount(count, stamp) ==
    IF count = 0 THEN "Never (cache not populated)" ELSE "Active"

\* cacheStatus: the report on cacheCount and lastUpdate, the values read
\* under RLock; lastUpdate.IsZero() decides
statusText(count, stamp) ==
    IF stamp = 0 THEN "Never (cache not populated)" ELSE "Active"

\* what cache_status reports from the values the goroutine has read
StatusOf(seen) == statusText(Len(seen.tabs), seen.stamp)

\* the reader reads the cache in this step
ReaderReads == ppc["reader"] = "read" /\ ppc'["reader"] = "runlock"

\* C29: cache_status reports the cache as never populated iff no refresh
\* (of the startup task or of refresh_tab_cache) has succeeded before it
\* reads; last_updated is zero exactly until the first success, and from
\* then on it is not zero and never decreases.
C29_NeverIffNoRefreshSucceeded ==
    /\ []((lastUpdated = 0) <=> (clock = 0))
    /\ [][ReaderReads
            => ((StatusOf(pseen'["reader"]) = "Never (cache not populated)")
                    <=> (clock = 0))]_vars
    /\ [][/\ lastUpdated' >= lastUpdated
          /\ lastUpdated # 0 => lastUpdated' # 0]_vars

\* cache_status has read the cache after a refresh that stored no tab
C29_Witness ==
    /\ pseen["reader"].read
    /\ ppc["reader"] = "done"
    /\ pseen["reader"].stamp # 0
    /\ pseen["reader"].tabs = << >>
    /\ StatusOf(pseen["reader"]) = "Active"

\* ------------------------------------------- the capacity of the cache

\* characters of the values of TAB_CACHE_SIZE
EnvChars == { "0", "1", "3", "5", "6", "-", "a" }

\* the environment: TAB_CACHE_SIZE is absent, or has a value of at most
\* MaxEnvLen characters
EnvPool ==
    { NoEnv }
        \cup { [set |-> TRUE, value |-> v] : v \in SeqsUpTo(EnvChars, MaxEnvLen) }

\* The process has started with some environment; NewTabTransferServer has
\* not run yet (cacheSize holds the zero value).
ParseInit ==
    /\ remote = << >>
    /\ remote0 = remote
    /\ forward = FALSE
    /\ pc = "idle"
    /\ op = "none"
    /\ args = NoArgs
    /\ started = FALSE
    /\ currentTabs = << >>
    /\ tabsToClose = << >>
    /\ idx = 0
    /\ exists = NoExists
    /\ result = NewResult
    /\ response = NoResponse
    /\ calls = << >>
    /\ server = "new"
    /\ tabCache = << >>
    /\ lastUpdated = 0
    /\ cacheSize = 0
    /\ clock = 0
    /\ rw = NoLock
    /\ ppc = [p \in Procs |-> "idle"]
    /\ pfetched = [p \in Procs |-> << >>]
    /\ pret = [p \in Procs |-> "none"]
    /\ pseen = [p \in Procs |-> NoSeen]
    /\ pcalls = [p \in Procs |-> << >>]
    /\ lastSwap = << << >>, 0 >>
    /\ runs = 0
    /\ env \in EnvPool

\* NewTabTransferServer
NewTabTransferServer ==
    /\ server = "new"
    /\ server' = "init"
    /\ cacheSize' = newCacheSize(env)
    /\ tabCache' = << >>
    /\ UNCHANGED << lastUpdated, clock, rw, ppc, pfetched, pret, pseen, pcalls,
                    lastSwap, runs, env >>
    /\ UNCHANGED << remote, forward, toolVars >>

ParseNext == NewTabTransferServer

ParseSpec == ParseInit /\ [][ParseNext]_vars

RECURSIVE DecimalValue(_)
\* the number a string of digits denotes
DecimalValue(s) ==
    IF s = Empty
    THEN 0
    ELSE 10 * DecimalValue(SubSeq(s, 1, Len(s) - 1)) + DigitValue(s[Len(s)])

\* TAB_CACHE_SIZE is a positive decimal integer that an int can hold
PositiveInt(e) ==
    /\ e.set
    /\ e.value # Empty
    /\ \A i \in 1..Len(e.value) : IsDigit(e.value[i])
    /\ DecimalValue(e.value) > 0
    /\ DecimalValue(e.value) <= 2 ^ (IntBits - 1) - 1

\* C30: the capacity of the cache is the value of TAB_CACHE_SIZE when that
\* is a positive decimal integer, and the default 30 when the variable is
\* absent, empty, zero, negative, not a number or too large for an int; it
\* is at least 1 in every case.
C30_CapacityFromEnvOrDefault ==
    server = "init"
        => /\ cacheSize = IF PositiveInt(env)
                          THEN DecimalValue(env.value)
                          ELSE DefaultCacheSize
           /\ cacheSize >= 1

\* ------------------------------------------------ claims on the close tools

\* the running call has sent the close request of the tab
PostSent(id) == \E i \in 1..Len(calls) : calls[i] = << "POST", id >>

\* C31: a close_tab call with confirm=true on a tab that is open, whose
\* close request fails (transport error or a status other than 200),
\* returns an error that names the tab id.
C31_FailedCloseNamesTab ==
    (/\ op = "closeTab"
     /\ pc = "done"
     /\ PostSent(args.tabId)
     /\ response.err)
        => response.ids = << args.tabId >>

\* -------------------------------------------------- the check command

\* the arguments after "check" on the command line
CheckArgsPool ==
    { << >>, << "all" >>, << "android" >>, << "ios" >>, << "windows" >>,
      << "" >>, << "android", "ios" >> }

\* results of platform.CheckADBAvailable: nil or one of its three errors
ADBOutcomes ==
    { "nil", "adb command not found in PATH", "adb command failed",
      "adb command did not return expected version output" }

\* results of platform.CheckIOSWebKitDebugProxyAvailable
IOSOutcomes ==
    { "nil", "ios_webkit_debug_proxy command not found in PATH",
      "ios_webkit_debug_proxy command failed" }

\* the arguments of a check run; probes holds the results of the probes the
\* run has made
CheckArgs(cli) == [cli |-> cli, probes |-> << >>]

\* the locals and the output of a check run, and the exit status of the
\* process ("none" while it runs)
CheckState(hasErrors, out, exit) ==
    [hasErrors |-> hasErrors, out |-> out, exit |-> exit]

\* The command line of a check run has been given.
CheckInit ==
    /\ remote = << >>
    /\ remote0 = remote
    /\ forward = FALSE
    /\ pc = "idle"
    /\ op = "check"
    /\ args \in { CheckArgs(cli) : cli \in CheckArgsPool }
    /\ started = FALSE
    /\ currentTabs = << >>
    /\ tabsToClose = << >>
    /\ idx = 0
    /\ exists = NoExists
    /\ result = NewResult
    /\ response = CheckState(FALSE, << >>, "none")
    /\ calls = << >>
    /\ server = "new"
    /\ tabCache = << >>
    /\ lastUpdated = 0
    /\ cacheSize = 0
    /\ clock = 0
    /\ rw = NoLock
    /\ ppc = [p \in Procs |-> "idle"]
    /\ pfetched = [p \in Procs |-> << >>]
    /\ pret = [p \in Procs |-> "none"]
    /\ pseen = [p \in Procs |-> NoSeen]
    /\ pcalls = [p \in Procs |-> << >>]
    /\ lastSwap = << << >>, 0 >>
    /\ runs = 0
    /\ env = NoEnv

\* checkCmd.Run: the local variable platform
checkPlatform(cli) == IF Len(cli) > 0 THEN cli[1] ELSE "all"

\* main: the exit status of the process; cmdErr tells whether cmd.Execute
\* returned an error. A Run function returns nothing to Execute.
mainExit(cmdErr, hasErrors) == IF cmdErr THEN 1 ELSE 0

\* cobra.MaximumNArgs(1) rejects the command line: Execute returns the
\* error, main logs it and exits with status 1
CheckTooManyArgs ==
    /\ op = "check"
    /\ pc = "idle"
    /\ Len(args.cli) > 1
    /\ response' = CheckState(FALSE, << "accepts at most 1 arg(s)" >>,
                              mainExit(TRUE, FALSE))
    /\ pc' = "exited"
    /\ UNCHANGED << remote, remote0, forward, op, args, started, currentTabs,
                    tabsToClose, idx, exists, result, calls >>
    /\ UNCHANGED cacheVars

\* checkCmd.Run begins: the header lines
CheckBegin ==
    /\ op = "check"
    /\ pc = "idle"
    /\ Len(args.cli) <= 1
    /\ response' = [response EXCEPT !.out = << "Checking system dependencies" >>]
    /\ pc' = "android"
    /\ UNCHANGED << remote, remote0, forward, op, args, started, currentTabs,
                    tabsToClose, idx, exists, result, calls >>
    /\ UNCHANGED cacheVars

\* checkCmd.Run: the Android probe, made for "all" and "android"
CheckAndroid ==
    /\ op = "check"
    /\ pc = "android"
    /\ IF checkPlatform(args.cli) \in { "all", "android" }
       THEN \E e \in ADBOutcomes :
               /\ args' = [args EXCEPT !.probes = Append(@, << "adb", e >>)]
               /\ calls' = Append(calls, << "CheckADBAvailable", "" >>)
               /\ response' =
                      [response EXCEPT
                          !.hasErrors = @ \/ e # "nil",
                          !.out = Append(@, IF e = "nil"
                                            THEN "Android (ADB): Available"
                                            ELSE "Android (ADB): error")]
       ELSE UNCHANGED << args, calls, response >>
    /\ pc' = "ios"
    /\ UNCHANGED << remote, remote0, forward, op, started, currentTabs,
                    tabsToClose, idx, exists, result >>
    /\ UNCHANGED cacheVars

\* checkCmd.Run: the iOS probe, made for "all" and "ios"
CheckIOS ==
    /\ op = "check"
    /\ pc = "ios"
    /\ IF checkPlatform(args.cli) \in { "all", "ios" }
       THEN \E e \in IOSOutcomes :
               /\ args' = [args EXCEPT !.probes = Append(@, << "ios", e >>)]
               /\ calls' = Append(calls,
                                  << "CheckIOSWebKitDebugProxyAvailable", "" >>)
               /\ response' =
                      [response EXCEPT
                          !.hasErrors = @ \/ e # "nil",
                          !.out = Append(@, IF e = "nil"
                                            THEN "iOS (WebKit Debug Proxy): Available"
                                            ELSE "iOS (WebKit Debug Proxy): error")]
       ELSE UNCHANGED << args, calls, response >>
    /\ pc' = "report"
    /\ UNCHANGED << remote, remote0, forward, op, started, currentTabs,
                    tabsToClose, idx, exists, result >>
    /\ UNCHANGED cacheVars

\* checkCmd.Run: the unknown-platform message or the summary; Run returns
CheckReport ==
    /\ op = "check"
    /\ pc = "report"
    /\ response' =
           [response EXCEPT
               !.out = Append(@,
                   IF checkPlatform(args.cli) \notin { "all", "android", "ios" }
                   THEN "Error: Unknown platform"
                   ELSE IF response.hasErrors
                   THEN "Some dependencies are missing"
                   ELSE "All required dependencies are available")]
    /\ pc' = "return"
    /\ UNCHANGED << remote, remote0, forward, op, args, started, currentTabs,
                    tabsToClose, idx, exists, result, calls >>
    /\ UNCHANGED cacheVars

\* main: cmd.Execute has returned nil and the process ends
CheckExit ==
    /\ op = "check"
    /\ pc = "return"
    /\ response' = [response EXCEPT !.exit = mainExit(FALSE, response.hasErrors)]
    /\ pc' = "exited"
    /\ UNCHANGED << remote, remote0, forward, op, args, started, currentTabs,
                    tabsToClose, idx, exists, result, calls >>
    /\ UNCHANGED cacheVars

CheckNext ==
    \/ CheckTooManyArgs
    \/ CheckBegin
    \/ CheckAndroid
    \/ CheckIOS
    \/ CheckReport
    \/ CheckExit

CheckSpec == CheckInit /\ [][CheckNext]_vars

\* the tools the requested platforms require
RequiredTools(cli) ==
    CASE checkPlatform(cli) = "all"     -> { "adb", "ios" }
      [] checkPlatform(cli) = "android" -> { "adb" }
      [] checkPlatform(cli) = "ios"     -> { "ios" }
      [] OTHER                          -> {}

\* a probe of the run has found a required tool missing or not working
ToolMissing ==
    \E i \in 1..Len(args.probes) :
        /\ args.probes[i][1] \in RequiredTools(args.cli)
        /\ args.probes[i][2] # "nil"

\* C32: the check command ends with a non-zero exit status whenever a tool
\* that the requested platform(s) require is missing, and with the status
\* zero only when all required tools are available.
C32_CheckExitStatus ==
    (op = "check" /\ pc = "exited" /\ Len(args.cli) <= 1)
        => (ToolMissing <=> response.exit # 0)

\* C33: the dry-run preview of close_tabs_bulk lists one entry (id, title,
\* url) for every id of the resolved selection, in its order, so that the
\* number of entries is the announced count, also when tabIds holds ids that
\* are not open on the device.
C33_PreviewListsSelection ==
    (op = "closeTabsBulk" /\ pc = "done" /\ response.msg = "DRY RUN")
        => /\ response.count = Len(tabsToClose)
           /\ Len(response.entries) = response.count
           /\ \A i \in 1..Len(response.entries) :
                  response.entries[i].id = tabsToClose[i]

\* C34: a close_tab call with an empty tabId returns the required-argument
\* error before any other step, for every platform and confirm value: it
\* does not answer with the confirmation request, does not start the driver
\* and makes no call to the device.
C34_EmptyTabIdRejectedFirst ==
    (op = "closeTab" /\ args.tabId = "")
        => /\ pc = "done"
           /\ response = ErrTabIdRequired
           /\ ~started
           /\ calls = << >>

\* close_tab without a tabId and without confirm, for the platform ios, has
\* returned the required-argument error
C34_Witness ==
    /\ op = "closeTab"
    /\ args.tabId = ""
    /\ ~args.confirm
    /\ args.platform = "ios"
    /\ pc = "done"
    /\ response = ErrTabIdRequired

\* ------------------------------- a bulk close beside a user of the device

\* The user closes on the device the tab that CloseTabs is about to close.
\* Only tabExists and the close request look at the device, so the change
\* is taken when the tabExists of that tab is about to fetch the tabs.
UserClosesTab ==
    /\ op = "closeTabsBulk"
    /\ pc = "exists"
    /\ CurId \in IdsOf(remote)
    /\ remote' = RemoveTab(remote, CurId)
    /\ UNCHANGED cacheVars
    /\ UNCHANGED << forward, toolVars >>

\* the close_tabs_bulk calls that reach CloseTabs when they select a tab
closeTabsBulkConfirmed ==
    \E a \in CloseTabsBulkArgs :
        /\ a.confirm
        /\ ~a.dryRun
        /\ Begin("closeTabsBulk", a, closeTabsBulkGate(a))

\* a confirmed close_tabs_bulk call and a user of the device
BulkNext ==
    \/ closeTabsBulkConfirmed
    \/ Start
    \/ LoadCurrentTabs
    \/ CloseTabVerify
    \/ CloseTabPost
    \/ Stop
    \/ UserClosesTab

BulkSpec == Init /\ [][BulkNext]_vars

\* the number of close requests the running call has sent
PostCount == Cardinality({ i \in 1..Len(calls) : calls[i][1] = "POST" })

\* every close request in the call log comes right after the fetch of
\* tabExists for the same id
PostsFollowVerify ==
    \A i \in 1..Len(calls) :
        calls[i][1] = "POST"
            => /\ i > 2
               /\ calls[i - 1] = << "LoadTabs", "" >>
               /\ calls[i - 2] = << "CloseTab", calls[i][2] >>

\* this step is the tabExists of CloseTab, and it finds the id absent
VerifiesAbsent ==
    /\ op = "closeTabsBulk"
    /\ pc = "exists"
    /\ pc' # "exists" \/ idx' # idx
    /\ exists'.ok
    /\ ~exists'.found

\* C35: in a bulk close every close request follows a fresh fetch of the
\* tabs of the device that held the id; an id that is absent at that moment
\* (never open, closed by an earlier iteration of the same list, or closed
\* by the user meanwhile) is counted as failed without a close request, and
\* the loop goes on to the next id.
C35_ReverifiedBeforeEachClose ==
    /\ [](op = "closeTabsBulk"
            => /\ PostsFollowVerify
               /\ pc = "post" => exists.ok /\ exists.found)
    /\ [][VerifiesAbsent
            => /\ result'.FailedCount = result.FailedCount + 1
               /\ result'.SuccessCount = result.SuccessCount
               /\ result'.FailedTabIDs = Append(result.FailedTabIDs, CurId)
               /\ PostCount' = PostCount
               /\ remote' = remote
               /\ idx' = idx + 1
               /\ idx < Len(tabsToClose) => pc' = "exists"]_vars

\* a bulk close of two ids has ended: the first was closed by the user
\* before its verification and failed, the second was closed by the call
C35_Witness ==
    /\ op = "closeTabsBulk"
    /\ pc = "done"
    /\ Len(tabsToClose) = 2
    /\ tabsToClose[1] \in IdsOf(remote0)
    /\ result.FailedTabIDs = << tabsToClose[1] >>
    /\ result.SuccessCount = 1
    /\ PostCount = 1

\* --------------------------------------------- tool calls and the tab cache

\* IOSTabsArgs: the arguments of copy_tabs_ios the model varies
IOSTabsArgs == { [NoArgs EXCEPT !.platform = "ios"] }

\* copy_tabs_ios
copyTabsIOS ==
    \E a \in IOSTabsArgs : Begin("copyTabsIOS", a, Proceed)

\* close_tabs_bulk, confirmed, of a list of tab ids
closeTabsBulkByIds ==
    \E a \in CloseTabsBulkArgs :
        /\ a.confirm
        /\ ~a.dryRun
        /\ a.tabIds # << >>
        /\ a.filterUrl = Empty
        /\ a.filterTitle = Empty
        /\ Begin("closeTabsBulk", a, closeTabsBulkGate(a))

\* the five tools that start a driver of their own, called one after the
\* other on a server whose startup task has filled the cache, and
\* refresh_tab_cache calls after them
StaleNext ==
    \/ NoRefreshYet /\ closeTab
    \/ NoRefreshYet /\ closeTabsBulkByIds
    \/ NoRefreshYet /\ copyTabsAndroid
    \/ NoRefreshYet /\ copyTabsIOS
    \/ NoRefreshYet /\ reopenTabs
    \/ Start
    \/ LoadCurrentTabs
    \/ CloseTabVerify
    \/ CloseTabPost
    \/ CopyLoadTabs
    \/ RestoreTabs
    \/ Stop
    \/ Return
    \/ pc = "idle" /\ refreshTabCache
    \/ FetchStart("refresh")
    \/ FetchLoad("refresh")
    \/ FetchLock("refresh")
    \/ FetchSwap("refresh")
    \/ FetchStamp("refresh")
    \/ FetchUnlock("refresh")
    \/ FetchStop("refresh")
    \/ FetchReturn("refresh")
    \/ RLock("refresh")
    \/ ReadCache("refresh")
    \/ RUnlock("refresh")

StaleSpec == ReaderInit /\ [][StaleNext]_vars

\* the tabs an unfiltered search_tabs call with the default limit returns
\* for the cache
UnfilteredSearch ==
    LET a == [query |-> Empty, domain |-> Empty, title |-> Empty,
              url |-> Empty, limit |-> searchLimit(0), format |-> ""]
        cachedTabs0 == copy(make(Len(tabCache)), tabCache).dst
    IN  ResultTabs(limitResults(sortResults(scoreTabs(cachedTabs0, a)),
                                a.limit).results)

\* close_tab has closed its tab on the device
ClosedTab ==
    /\ op = "closeTab"
    /\ pc = "done"
    /\ ~response.err
    /\ args.confirm
    /\ PostSent(args.tabId)

\* C36: only the steps of fetchAndCacheAndroidTabs write the cache: no step
\* of close_tab, close_tabs_bulk, copy_tabs_android, copy_tabs_ios and
\* reopen_tabs changes the cached entries or lastUpdated, so up to the next
\* refresh the cache is as the last refresh left it, and a tab close_tab has
\* closed on the device is still cached and still found by search_tabs.
C36_ToolsLeaveCache ==
    /\ [](/\ NoRefreshYet => tabCache = lastSwap[1] /\ lastUpdated = lastSwap[2]
          /\ (ClosedTab /\ args.tabId \in IdsOf(lastSwap[1]))
                => /\ args.tabId \notin IdsOf(remote)
                   /\ args.tabId \in IdsOf(tabCache)
                   /\ \E t \in UnfilteredSearch : t.id = args.tabId)
    /\ [][ (pc' # pc \/ calls' # calls \/ op' # op)
           => tabCache' = tabCache /\ lastUpdated' = lastUpdated ]_vars
    /\ [][ (tabCache' # tabCache \/ lastUpdated' # lastUpdated)
           => /\ ppc["refresh"] \in { "swap", "stamp" }
              /\ ppc'["refresh"] # ppc["refresh"] ]_vars

\* close_tab has closed a cached tab, which the device no longer has and the
\* cache still holds
C36_Witness ==
    /\ ClosedTab
    /\ args.tabId \notin IdsOf(remote)
    /\ args.tabId \in IdsOf(tabCache)
    /\ lastUpdated = 1

\* populateTabCache and a refresh_tab_cache call have both returned, each
\* with its fetch stored
AllRefreshesDone ==
    /\ \A p \in Fetchers : ppc[p] = "done" /\ pret[p] = "nil"
    /\ runs > 0

\* C37: when the refreshes that ran side by side have all completed, the
\* cache holds the list of the fetch that was made last. The device changes
\* only when a fetch is about to read it, so once every fetch is done the
\* device still holds the list the last fetch has read.
C37_LastFetchWins ==
    AllRefreshesDone => tabCache = Truncate(remote, cacheSize)

\* reopen_tabs for Android has called RestoreTabs on its started driver
RestoredAndroid ==
    /\ op = "reopenTabs"
    /\ args.platform = "android"
    /\ pc \in { "stop", "done" }
    /\ started

\* the tabs of the PUT /json/new requests of the running call, in order
PutIds == SelectSeq(calls, LAMBDA c : c[1] = "PUT")

\* C40: restoring to Android creates the tabs one after the other in list
\* order and stops at the first tab that fails: when tab i (from 0) fails,
\* the device has got the tabs 0..i-1, exactly the tabs 0..i were attempted,
\* and the error names i; with no failure every tab was attempted and made.
C40_RestoreStopsAtFirstFailure ==
    RestoredAndroid
        => LET n == Len(args.tabs)
               i == response.count
           IN  IF response.err
               THEN /\ response = ErrRestore(i)
                    /\ i < n
                    /\ PutIds = [j \in 1..(i + 1) |-> << "PUT", args.tabs[j].id >>]
                    /\ remote = Created(args.tabs, i, remote0)
               ELSE /\ response = RestoredOk(n)
                    /\ PutIds = [j \in 1..n |-> << "PUT", args.tabs[j].id >>]
                    /\ remote = Created(args.tabs, n, remote0)

\* of two tabs to restore the first one failed: one request was made, the
\* device has no new tab and the error names tab 0
C40_Witness ==
    /\ RestoredAndroid
    /\ pc = "done"
    /\ Len(args.tabs) = 2
    /\ response = ErrRestore(0)
    /\ Len(PutIds) = 1
    /\ remote = remote0

\* ------------------------------------------- the life of an AndroidDriver

\* largest number of calls and events in the life of one driver
MaxDriverCalls == 3

\* the context of the operation has expired (its deadline has passed)
CtxExpired == << "ctx", "deadline exceeded" >>

CtxDone == \E i \in 1..Len(calls) : calls[i] = CtxExpired

\* NewAndroidDriver: tabLoader is nil; the device is reachable only through
\* the port forward
LifeInit ==
    /\ remote \in DevicePool
    /\ remote0 = remote
    /\ forward = FALSE
    /\ pc = "driver"
    /\ op = "driver"
    /\ args \in AndroidTabsArgs
    /\ started = FALSE
    /\ currentTabs = << >>
    /\ tabsToClose = << >>
    /\ idx = 0
    /\ exists = NoExists
    /\ result = NewResult
    /\ response = NoResponse
    /\ calls = << >>
    /\ CacheInit(NoEnv)

\* a method of the driver returns e to its caller
DriverReturns(method, e) ==
    /\ op = "driver"
    /\ Len(calls) < MaxDriverCalls
    /\ calls' = Append(calls, << method, e >>)
    /\ response' = Resp(e # Nil, e, 0, 0, << >>, << >>)
    /\ UNCHANGED cacheVars
    /\ UNCHANGED << remote0, pc, op, args, idx, exists >>

\* a request to the DevTools endpoint can be answered: the port is
\* forwarded and the context of the request is not done
Reachable == forward /\ ~CtxDone

\* the deadline of the context the caller passes to every method passes
CtxTimeout ==
    /\ op = "driver"
    /\ Len(calls) < MaxDriverCalls
    /\ ~CtxDone
    /\ calls' = Append(calls, CtxExpired)
    /\ UNCHANGED cacheVars
    /\ UNCHANGED << remote, remote0, forward, pc, op, args, started,
                    currentTabs, tabsToClose, idx, exists, result, response >>

\* AndroidDriver.Start: the checks, adb forward under the context, and the
\* tab loader, which is set only when all of it succeeded
DriverStart ==
    /\ \E ok \in BOOLEAN :
        /\ ok => ~CtxDone
        /\ started' = (started \/ ok)
        /\ forward' = (forward \/ ok)
        /\ DriverReturns("Start", IF ok THEN Nil ELSE "failed to start")
    /\ UNCHANGED << remote, currentTabs, tabsToClose, result >>

\* AndroidDriver.Stop: nothing with SkipCleanup; else adb forward --remove
\* under the context, which runs no command when the context is done.
\* tabLoader stays as it is.
DriverStop ==
    /\ \E removed \in BOOLEAN :
        /\ (args.skipCleanup \/ CtxDone) => ~removed
        /\ forward' = (forward /\ ~removed)
        /\ DriverReturns("Stop",
               IF args.skipCleanup \/ removed
               THEN Nil
               ELSE "failed to cleanup ADB port forwarding")
    /\ UNCHANGED << remote, started, currentTabs, tabsToClose, result >>

\* AndroidDriver.LoadTabs
DriverLoadTabs ==
    /\ IF ~started
       THEN /\ DriverReturns("LoadTabs", ErrNotStarted)
            /\ UNCHANGED currentTabs
       ELSE \E ok \in BOOLEAN :
               /\ ok => Reachable
               /\ currentTabs' = IF ok THEN remote ELSE << >>
               /\ DriverReturns("LoadTabs", IF ok THEN Nil ELSE "failed to fetch tabs")
    /\ UNCHANGED << remote, forward, started, tabsToClose, result >>

\* AndroidDriver.RestoreTabs
DriverRestoreTabs ==
    /\ \E tabs \in DevicePool :
        IF ~started
        THEN /\ DriverReturns("RestoreTabs", ErrNotStarted)
             /\ UNCHANGED remote
        ELSE \E k \in 0..Len(tabs) :
                /\ k > 0 => Reachable
                /\ CanCreate(tabs, k, remote)
                /\ remote' = Created(tabs, k, remote)
                /\ DriverReturns("RestoreTabs",
                       IF k = Len(tabs) THEN Nil ELSE "failed to restore tab")
    /\ UNCHANGED << forward, started, currentTabs, tabsToClose, result >>

\* what AndroidDriver.CloseTab(tabID) returns on a started driver when its
\* requests can (ok) or cannot be answered
CloseTabOutcomes(tabID, ok) ==
    IF ~ok
    THEN { ErrVerify }
    ELSE IF ~tabExists(remote, tabID)
         THEN { ErrNotExist }
         ELSE PostOutcomes(tabID)

\* AndroidDriver.CloseTab
DriverCloseTab ==
    /\ \E tabID \in IdPool :
        IF ~started
        THEN /\ DriverReturns("CloseTab", ErrNotStarted)
             /\ UNCHANGED remote
        ELSE \E ok \in BOOLEAN :
                /\ ok => Reachable
                /\ \E e \in CloseTabOutcomes(tabID, ok) :
                       /\ remote' = IF e = Nil THEN RemoveTab(remote, tabID)
                                    ELSE remote
                       /\ DriverReturns("CloseTab", e)
    /\ UNCHANGED << forward, started, currentTabs, tabsToClose, result >>

\* AndroidDriver.CloseTabs of one tab id or of none
DriverCloseTabs ==
    /\ \E tabIDs \in { s \in TabIdsPool : Len(s) <= 1 } :
        /\ tabsToClose' = tabIDs
        /\ IF ~started
           THEN /\ DriverReturns("CloseTabs", ErrNotStarted)
                /\ UNCHANGED << remote, result >>
           ELSE IF tabIDs = << >>
           THEN /\ DriverReturns("CloseTabs", Nil)
                /\ result' = NewResult
                /\ UNCHANGED remote
           ELSE \E ok \in BOOLEAN :
                   /\ ok => Reachable
                   /\ \E e \in CloseTabOutcomes(tabIDs[1], ok) :
                          /\ remote' = IF e = Nil
                                       THEN RemoveTab(remote, tabIDs[1])
                                       ELSE remote
                          /\ result' = Accumulate(NewResult, tabIDs[1], e)
                          /\ DriverReturns("CloseTabs",
                                 CloseTabsReturn(result', tabIDs).msg)
    /\ UNCHANGED << forward, started, currentTabs >>

LifeNext ==
    \/ CtxTimeout
    \/ DriverStart
    \/ DriverStop
    \/ DriverLoadTabs
    \/ DriverRestoreTabs
    \/ DriverCloseTab
    \/ DriverCloseTabs

LifeSpec == LifeInit /\ [][LifeNext]_vars

\* the methods of the driver that use its tab loader
LoaderMethods == { "LoadTabs", "RestoreTabs", "CloseTab", "CloseTabs" }

\* the index of the last Start or Stop before the call at index i, or 0
LastLifeCall(i) ==
    LET js == { j \in 1..(i - 1) : calls[j][1] \in { "Start", "Stop" } }
    IN  IF js = {} THEN 0 ELSE CHOOSE j \in js : \A k \in js : k <= j

\* the driver is in the started state when the call at index i is made: the
\* last of its Start and Stop calls before is a Start that succeeded
InStartedState(i) ==
    LastLifeCall(i) > 0 /\ calls[LastLifeCall(i)] = << "Start", Nil >>

\* C38: LoadTabs, RestoreTabs, CloseTab and CloseTabs of the Android driver
\* return "driver not started" whenever the driver is not in the started
\* state: before a successful Start, after a failed Start and after Stop.
C38_NotStartedRejected ==
    op = "driver"
        => \A i \in 1..Len(calls) :
               (calls[i][1] \in LoaderMethods /\ ~InStartedState(i))
                   => calls[i][2] = ErrNotStarted

\* the operation started its driver, its context expired afterwards, and
\* its deferred Stop has run as the last call
StoppedAfterTimeout ==
    /\ op = "driver"
    /\ ~args.skipCleanup
    /\ Len(calls) >= 3
    /\ calls[1] = << "Start", Nil >>
    /\ calls[Len(calls)][1] = "Stop"
    /\ \E k \in 2..(Len(calls) - 1) : calls[k] = CtxExpired
    /\ \A k \in 2..(Len(calls) - 1) : calls[k][1] \notin { "Start", "Stop" }

\* C39: when the timeout of an operation expires after Start succeeded, the
\* deferred Stop still removes the port forward Start has set up.
C39_StopCleansUpAfterTimeout ==
    StoppedAfterTimeout => ~forward

====
